---------------------------- MODULE Spec2Model ----------------------------
(***************************************************************************)
(* CryptoGuard: the transaction-graph risk engine of                       *)
(* backend/utils/crypto_graph_analyzer.py (class CryptoGraphAnalyzer).     *)
(*                                                                         *)
(* Conventions of the model                                                *)
(*   - self.graph (a networkx DiGraph) is the record                       *)
(*     [nodes |-> <<...>>, edges |-> <<...>>]: the nodes in insertion      *)
(*     order and the aggregate edges in insertion order.  networkx keeps   *)
(*     adjacency in insertion-ordered dictionaries, so successors,         *)
(*     predecessors, in_edges and out_edges of a wallet are the matching   *)
(*     sub-sequences of `edges`.                                           *)
(*   - amounts are natural numbers; timestamps are whole hours since an    *)
(*     epoch (hour of day = timestamp % 24).                               *)
(*   - scores and confidences are in thousandths: 0.35 is 350; the scalar  *)
(*     suspicion score is in units of 1/100000.                            *)
(*   - betweenness and PageRank are computed by networkx, outside the      *)
(*     repository: nx_oracle holds what the library answers for the        *)
(*     current topology, chosen anew whenever the topology changes.        *)
(*   - an operation that can end in an exception yields Return(value) or   *)
(*     Raised(kind).                                                       *)
(***************************************************************************)
EXTENDS Integers, Sequences, FiniteSets, TLC

VARIABLES graph, illicit_wallets, nx_oracle, loaded, n_loads, last, requests,
          cases_db, case_counter, open_cases

vars == <<graph, illicit_wallets, nx_oracle, loaded, n_loads, last, requests,
          cases_db, case_counter, open_cases>>

\* The case store and the dashboard counter of app.py.
case_vars == <<cases_db, case_counter, open_cases>>

(***************************************************************************)
(* Bounds of the model and input alphabets                                 *)
(***************************************************************************)
\* Number of load_transactions calls in one behaviour of Spec.
MaxLoads == 2
\* Number of load_transactions calls in one behaviour of SpecPattern.
MaxScenarioLoads == 2

\* Addresses that occur in transaction records.
Wallets == {"A", "B", "C"}
\* "Z" never occurs in a record: it is only marked illicit or asked about.
Addresses == Wallets \cup {"Z"}
Amounts == {5, 10}
Timestamps == {0}
\* txn.get("token_type", "UNKNOWN"): NoToken stands for a record without the key.
NoToken == "<none>"
TokenTypes == {NoToken}

TxnRecords ==
    [source_wallet : Wallets, dest_wallet : Wallets, amount : Amounts,
     timestamp : Timestamps, token_type : TokenTypes]

(***************************************************************************)
(* Generic helpers                                                         *)
(***************************************************************************)
Min(a, b) == IF a <= b THEN a ELSE b
Max(a, b) == IF a >= b THEN a ELSE b

RECURSIVE SumSeq(_)
SumSeq(s) == IF s = <<>> THEN 0 ELSE Head(s) + SumSeq(Tail(s))

RECURSIVE SelectSeqIdx(_, _, _)
\* the indices i of s, in order, with Test(s[i])
SelectSeqIdx(s, Test(_), i) ==
    IF i > Len(s) THEN <<>>
    ELSE (IF Test(s[i]) THEN <<i>> ELSE <<>>) \o SelectSeqIdx(s, Test, i + 1)

Range(s) == {s[i] : i \in 1..Len(s)}

\* What a call ends in: a returned value or an exception.
Return(v) == [status |-> "returned", value |-> v]
Raised(kind) == [status |-> "raised", error |-> kind]

(***************************************************************************)
(* TransactionGraphStore: the DiGraph and load_transactions                *)
(***************************************************************************)
EmptyGraph == [nodes |-> <<>>, edges |-> <<>>]

has_node(g, n) == \E i \in 1..Len(g.nodes) : g.nodes[i] = n

\* DiGraph.has_edge(u, v)
has_edge(g, u, v) ==
    \E i \in 1..Len(g.edges) : g.edges[i].src = u /\ g.edges[i].dst = v

EdgeIndex(g, u, v) ==
    CHOOSE i \in 1..Len(g.edges) : g.edges[i].src = u /\ g.edges[i].dst = v

\* self.graph[u][v]
EdgeData(g, u, v) == g.edges[EdgeIndex(g, u, v)]

\* DiGraph.add_edge(u, v, **attr) for a pair that has no edge yet: both
\* endpoints become nodes (u first), and the edge is appended.
add_edge(g, u, v, attr) ==
    LET n1 == IF has_node(g, u) THEN g.nodes ELSE Append(g.nodes, u)
        n2 == IF \E i \in 1..Len(n1) : n1[i] = v THEN n1 ELSE Append(n1, v)
    IN [nodes |-> n2,
        edges |-> Append(g.edges,
                         [src |-> u, dst |-> v,
                          transactions |-> attr.transactions,
                          total_amount |-> attr.total_amount,
                          transaction_count |-> attr.transaction_count])]

StoredTxn(txn) ==
    [amount |-> txn.amount, timestamp |-> txn.timestamp,
     token_type |-> IF txn.token_type = NoToken THEN "UNKNOWN" ELSE txn.token_type]

\* One iteration of the loop of load_transactions.
LoadAlwaysAdds(g, txn) ==
    add_edge(g, txn.source_wallet, txn.dest_wallet,
             [transactions |-> <<StoredTxn(txn)>>,
              total_amount |-> txn.amount, transaction_count |-> 1])

LoadForgetsTotal(g, txn) ==
    IF has_edge(g, txn.source_wallet, txn.dest_wallet)
    THEN LET i == EdgeIndex(g, txn.source_wallet, txn.dest_wallet)
         IN [g EXCEPT !.edges[i].transactions = Append(@, StoredTxn(txn)),
                      !.edges[i].transaction_count = @ + 1]
    ELSE LoadAlwaysAdds(g, txn)

load_one(g, txn) ==
    LET source == txn.source_wallet
        dest == txn.dest_wallet
    IN IF has_edge(g, source, dest)
       THEN LET i == EdgeIndex(g, source, dest)
            IN [g EXCEPT !.edges[i].transactions = Append(@, StoredTxn(txn)),
                         !.edges[i].total_amount = @ + txn.amount,
                         !.edges[i].transaction_count = @ + 1]
       ELSE add_edge(g, source, dest,
                     [transactions |-> <<StoredTxn(txn)>>,
                      total_amount |-> txn.amount, transaction_count |-> 1])

RECURSIVE load_transactions(_, _)
load_transactions(g, transactions) ==
    IF transactions = <<>> THEN g
    ELSE load_transactions(load_one(g, Head(transactions)), Tail(transactions))

\* mark_illicit_wallets: the set is replaced by the given list's set.
mark_illicit_wallets(old, illicit_wallet_list) == illicit_wallet_list

(***************************************************************************)
(* History of what was loaded, per ordered pair (ghost state)              *)
(***************************************************************************)
\* loaded maps an ordered pair to the records loaded for it so far, in load
\* order; a pair outside its domain has none.
LoadedFor(h, p) == IF p \in DOMAIN h THEN h[p] ELSE <<>>

RECURSIVE Record(_, _)
Record(h, transactions) ==
    IF transactions = <<>> THEN h
    ELSE LET t == Head(transactions)
             p == <<t.source_wallet, t.dest_wallet>>
         IN Record((p :> Append(LoadedFor(h, p), StoredTxn(t)))
                   @@ [q \in DOMAIN h \ {p} |-> h[q]],
                   Tail(transactions))

(***************************************************************************)
(* Read access to the graph (networkx views)                               *)
(***************************************************************************)
\* graph.out_edges(wallet, data=True) / graph.in_edges(wallet, data=True).
\* For an address that is no node the views are empty (addresses are atomic
\* strings: nbunch_iter finds no node in them).
out_edges(g, wallet) == SelectSeq(g.edges, LAMBDA e : e.src = wallet)
in_edges(g, wallet) == SelectSeq(g.edges, LAMBDA e : e.dst = wallet)

\* graph.successors(n) / graph.neighbors(n) / graph.predecessors(n) of a node n,
\* in adjacency order.  For an address that is no node networkx raises
\* NetworkXError; callers below test has_node first and return Raised(...).
successors(g, n) == [i \in 1..Len(out_edges(g, n)) |-> out_edges(g, n)[i].dst]
predecessors(g, n) == [i \in 1..Len(in_edges(g, n)) |-> in_edges(g, n)[i].src]

NodeSet(g) == Range(g.nodes)

AllTimestamps(es) ==
    LET RECURSIVE Go(_)
        Go(i) == IF i > Len(es) THEN <<>>
                 ELSE [k \in 1..Len(es[i].transactions) |->
                          es[i].transactions[k].timestamp] \o Go(i + 1)
    IN Go(1)

SeqMax(s) == CHOOSE x \in Range(s) : \A y \in Range(s) : y <= x
SeqMin(s) == CHOOSE x \in Range(s) : \A y \in Range(s) : x <= y

TotalAmounts(es) == [i \in 1..Len(es) |-> es[i].total_amount]

\* src for src, _, _ in in_edges if src in self.illicit_wallets
IllicitSources(g, illicit, wallet) ==
    SelectSeq(predecessors(g, wallet), LAMBDA src : src \in illicit)

\* sum(self.graph[src][wallet]["total_amount"] for src in illicit_sources)
TotalFromIllicit(g, illicit, wallet) ==
    SumSeq(TotalAmounts(SelectSeq(in_edges(g, wallet), LAMBDA e : e.src \in illicit)))

(***************************************************************************)
(* Shortest paths (nx.has_path / nx.shortest_path_length)                  *)
(***************************************************************************)
Infinity == -2

\* Breadth-first search along the edges' direction; Infinity when t is not
\* reachable from s.  Both s and t are nodes.
shortest_path_length(g, s, t) ==
    LET RECURSIVE Bfs(_, _, _)
        Bfs(frontier, seen, d) ==
            IF t \in frontier THEN d
            ELSE LET nxt == {e.dst : e \in {x \in Range(g.edges) : x.src \in frontier}}
                            \ seen
                 IN IF nxt = {} THEN Infinity ELSE Bfs(nxt, seen \cup nxt, d + 1)
    IN Bfs({s}, {s}, 0)

DistanceForwardOnly(g, illicit, wallet) ==
    IF wallet \in illicit THEN 0
    ELSE LET ds == {shortest_path_length(g, wallet, i) :
                       i \in {x \in illicit : has_node(g, x) /\ has_node(g, wallet)}}
                   \ {Infinity}
         IN IF ds = {} THEN -1 ELSE CHOOSE d \in ds : \A e \in ds : d <= e

\* _distance_to_illicit_wallets: NodeNotFound (the wallet or the illicit
\* address is no node) is swallowed by the except clause.
distance_to_illicit_wallets(g, illicit, wallet) ==
    IF wallet \in illicit THEN 0
    ELSE LET usable == {i \in illicit : has_node(g, i) /\ has_node(g, wallet)}
             ds == ({shortest_path_length(g, wallet, i) : i \in usable}
                    \cup {shortest_path_length(g, i, wallet) : i \in usable})
                   \ {Infinity}
         IN IF ds = {} THEN -1 ELSE CHOOSE d \in ds : \A e \in ds : d <= e

(***************************************************************************)
(* CentralityEngine: calculate_wallet_centrality                           *)
(***************************************************************************)
Reaches(g, s, t) == shortest_path_length(g, s, t) # Infinity

\* nx.is_strongly_connected on a graph with at least one node
is_strongly_connected(g) ==
    \A s \in NodeSet(g) : \A t \in NodeSet(g) : Reaches(g, s, t)

\* nx.degree_centrality(G)[n]: 1 when the graph has a single node, else
\* (in-degree + out-degree) / (len(G) - 1)
degree_centrality(g, n) ==
    IF Len(g.nodes) <= 1 THEN 1000
    ELSE ((Len(in_edges(g, n)) + Len(out_edges(g, n))) * 1000) \div (Len(g.nodes) - 1)

\* nx.closeness_centrality(G)[n] of a strongly connected graph: the inverse
\* of the mean distance to n
closeness_centrality(g, n) ==
    LET tot == SumSeq([i \in 1..Len(g.nodes) |-> shortest_path_length(g, g.nodes[i], n)])
    IN IF tot > 0 /\ Len(g.nodes) > 1 THEN ((Len(g.nodes) - 1) * 1000) \div tot ELSE 0

ZeroCentrality == [degree |-> 0, betweenness |-> 0, pagerank |-> 0, closeness |-> 0]

\* The null graph makes is_strongly_connected raise, which the bare except
\* turns into all zeros; .get(wallet, 0) gives 0 for an address that is no node.
calculate_wallet_centrality(g, oracle, wallet) ==
    IF Len(g.nodes) = 0 THEN ZeroCentrality
    ELSE IF ~has_node(g, wallet)
         THEN ZeroCentrality
         ELSE [degree |-> degree_centrality(g, wallet),
               betweenness |-> oracle.betweenness,
               pagerank |-> oracle.pagerank,
               closeness |-> IF is_strongly_connected(g)
                             THEN closeness_centrality(g, wallet) ELSE 0]

(***************************************************************************)
(* SuspicionScorer: scalar mode                                            *)
(***************************************************************************)
\* _analyze_transaction_patterns
analyze_transaction_patterns(g, illicit, wallet) ==
    LET oe == out_edges(g, wallet)
        ie == in_edges(g, wallet)
        total_received == SumSeq(TotalAmounts(ie))
        total_sent == SumSeq(TotalAmounts(oe))
        smurf ==
            IF Len(ie) > 0 /\ Len(oe) >= 5
            THEN IF IllicitSources(g, illicit, wallet) # <<>> THEN 800
                 ELSE IF 10 * total_received > 8 * total_sent
                         \* avg_out < total_received / 10
                         /\ 10 * total_sent < total_received * Len(oe)
                      THEN 600 ELSE 0
            ELSE 0
        fan_out == IF Len(oe) > 10 THEN 300 ELSE IF Len(oe) > 5 THEN 150 ELSE 0
        fan_in == IF Len(ie) > 10 THEN 300 ELSE IF Len(ie) > 5 THEN 150 ELSE 0
        round_trip ==
            IF \E i \in 1..Len(oe) : has_edge(g, oe[i].dst, wallet) THEN 200 ELSE 0
    IN Min(smurf + fan_out + fan_in + round_trip, 1000)

\* The illicit-connection tier of calculate_suspicion_score (lines 260-287).
illicit_connection_score(g, illicit, wallet) ==
    LET illicit_distance == distance_to_illicit_wallets(g, illicit, wallet)
    IN IF illicit_distance = 0 THEN 1000
       ELSE IF illicit_distance = 1
            THEN IF IllicitSources(g, illicit, wallet) # <<>>
                 THEN IF TotalFromIllicit(g, illicit, wallet) > 100 THEN 900 ELSE 700
                 ELSE 500
       ELSE IF illicit_distance = 2 THEN 300
       ELSE IF illicit_distance <= 3 THEN 150
       ELSE 0

ScoreWeighsPatternsLess(g, illicit, oracle, wallet) ==
    LET centrality == calculate_wallet_centrality(g, oracle, wallet)
        centrality_score == 3 * centrality.degree + 4 * centrality.betweenness
                            + 3 * centrality.pagerank
    IN Min(50 * illicit_connection_score(g, illicit, wallet)
           + 2 * centrality_score
           + 20 * analyze_transaction_patterns(g, illicit, wallet),
           100000)

\* calculate_suspicion_score, in units of 1/100000:
\*   0.5 * illicit tier + 0.2 * (0.3 degree + 0.4 betweenness + 0.3 pagerank)
\*   + 0.3 * pattern score, capped at 1.0
calculate_suspicion_score(g, illicit, oracle, wallet) ==
    LET centrality == calculate_wallet_centrality(g, oracle, wallet)
        centrality_score == 3 * centrality.degree + 4 * centrality.betweenness
                            + 3 * centrality.pagerank
    IN Min(50 * illicit_connection_score(g, illicit, wallet)
           + 2 * centrality_score
           + 30 * analyze_transaction_patterns(g, illicit, wallet),
           100000)

\* get_wallet_summary: the dictionary is built entry by entry, and
\* graph.predecessors(wallet) raises for an address that is no node.
get_wallet_summary(g, illicit, oracle, wallet) ==
    IF ~has_node(g, wallet) THEN Raised("NetworkXError")
    ELSE Return(
         [wallet_address |-> wallet,
          suspicion_score |-> calculate_suspicion_score(g, illicit, oracle, wallet),
          centrality |-> calculate_wallet_centrality(g, oracle, wallet),
          total_received |-> SumSeq(TotalAmounts(in_edges(g, wallet))),
          total_sent |-> SumSeq(TotalAmounts(out_edges(g, wallet))),
          unique_senders |-> Len(predecessors(g, wallet)),
          unique_receivers |-> Len(successors(g, wallet)),
          is_illicit |-> wallet \in illicit,
          distance_to_illicit |-> distance_to_illicit_wallets(g, illicit, wallet)])

(***************************************************************************)
(* SuspicionScorer: breakdown mode                                         *)
(***************************************************************************)
\* Component 1 (lines 314-324)
fan_out_score(n) ==
    IF n >= 20 THEN 350 ELSE IF n >= 10 THEN 250 ELSE IF n >= 5 THEN 150 ELSE 0

\* Component 2 (lines 334-344)
fan_in_score(n) ==
    IF n >= 20 THEN 280 ELSE IF n >= 10 THEN 200 ELSE IF n >= 5 THEN 120 ELSE 0

\* Component 3 (lines 354-374): time_span in hours, txn_count timestamps
temporal_burst_score(ts) ==
    IF Len(ts) > 0
    THEN LET time_span == SeqMax(ts) - SeqMin(ts)
             txn_count == Len(ts)
         IN IF time_span < 24 /\ txn_count > 10 THEN 170
            ELSE IF time_span < 48 /\ txn_count > 15 THEN 120
            ELSE IF time_span < 168 /\ txn_count > 25 THEN 80
            ELSE 0
    ELSE 0

Abs(x) == IF x < 0 THEN -x ELSE x

\* sum(1 for amt in amounts if abs(amt - avg_amount) < avg_amount * 0.2),
\* with avg_amount = sum(amounts) / len(amounts)
similar_count(amounts) ==
    Cardinality({i \in 1..Len(amounts) :
        5 * Abs(Len(amounts) * amounts[i] - SumSeq(amounts)) < SumSeq(amounts)})

\* Component 4 (lines 385-400)
path_similarity_score(amounts) ==
    IF amounts # <<>>
    THEN IF 10 * similar_count(amounts) > 7 * Len(amounts) /\ Len(amounts) >= 5 THEN 100
         ELSE IF 10 * similar_count(amounts) > 5 * Len(amounts) /\ Len(amounts) >= 5 THEN 60
         ELSE 0
    ELSE 0

ProximityLikeScalarTier(g, illicit, wallet) ==
    LET illicit_distance == distance_to_illicit_wallets(g, illicit, wallet)
    IN IF illicit_distance = 0 THEN 500
       ELSE IF illicit_distance = 1
            THEN IF IllicitSources(g, illicit, wallet) # <<>>
                 THEN IF TotalFromIllicit(g, illicit, wallet) > 100 THEN 350 ELSE 250
                 ELSE 200
       ELSE IF illicit_distance = 2 THEN 100
       ELSE IF illicit_distance <= 3 THEN 50
       ELSE 0

\* Component 5 (lines 413-440)
illicit_proximity_score(g, illicit, wallet) ==
    LET illicit_distance == distance_to_illicit_wallets(g, illicit, wallet)
    IN IF illicit_distance = 0 THEN 500
       ELSE IF illicit_distance = 1
            THEN IF IllicitSources(g, illicit, wallet) # <<>>
                 THEN IF TotalFromIllicit(g, illicit, wallet) > 100 THEN 350 ELSE 250
                 ELSE 200
       ELSE IF illicit_distance = 2 THEN 100
       ELSE IF illicit_distance = 3 THEN 50
       ELSE 0

BreakdownTotalUncapped(c) ==
    c.fan_out_score.score + c.fan_in_score.score + c.temporal_burst_score.score
    + c.path_similarity_score.score + c.illicit_proximity_score.score

\* total_score ... min(total_score, 1.0)  (lines 452-461)
breakdown_total(c) ==
    Min(c.fan_out_score.score + c.fan_in_score.score + c.temporal_burst_score.score
        + c.path_similarity_score.score + c.illicit_proximity_score.score,
        1000)

calculate_suspicion_breakdown(g, illicit, wallet) ==
    LET oe == out_edges(g, wallet)
        ie == in_edges(g, wallet)
        all_timestamps == AllTimestamps(ie \o oe)
        components ==
            [fan_out_score |->
                 [score |-> fan_out_score(Len(oe)), destination_count |-> Len(oe)],
             fan_in_score |->
                 [score |-> fan_in_score(Len(ie)), source_count |-> Len(ie)],
             temporal_burst_score |->
                 [score |-> temporal_burst_score(all_timestamps),
                  transaction_count |-> Len(all_timestamps),
                  time_span_hours |-> IF Len(all_timestamps) > 0
                                      THEN SeqMax(all_timestamps) - SeqMin(all_timestamps)
                                      ELSE 0],
             path_similarity_score |->
                 [score |-> path_similarity_score(TotalAmounts(oe))],
             illicit_proximity_score |->
                 [score |-> illicit_proximity_score(g, illicit, wallet),
                  distance_to_illicit |->
                      distance_to_illicit_wallets(g, illicit, wallet)]]
    IN [total_suspicion_score |-> breakdown_total(components),
        components |-> components]

(***************************************************************************)
(* PatternDetectors.  A detector result is                                 *)
(*   [type, confidence, subtype, evidence]; an evidence entry is the       *)
(* message's kind with the numbers formatted into it.                      *)
(***************************************************************************)
FanPatternFlatReaggregation(g, illicit, wallet, ie, oe) ==
    LET in_count == Len(ie)
        out_count == Len(oe)
        fan == IF out_count >= 10 THEN 500 ELSE IF out_count >= 5 THEN 300 ELSE 0
        fan_ev == IF out_count >= 10 THEN << <<"High fan-out", out_count>> >>
                  ELSE IF out_count >= 5 THEN << <<"Moderate fan-out", out_count>> >>
                  ELSE <<>>
        reagg == IF in_count >= 3 /\ out_count >= 5 THEN 300 ELSE 0
        reagg_ev == IF in_count >= 5 /\ out_count >= 5
                    THEN << <<"Reaggregation detected", in_count, out_count>> >>
                    ELSE IF in_count >= 3 /\ out_count >= 5
                    THEN << <<"Collection point", in_count, out_count>> >>
                    ELSE <<>>
        subtype == IF in_count >= 5 /\ out_count >= 5 THEN "MULTI_LAYER_REAGGREGATION"
                   ELSE IF in_count >= 3 /\ out_count >= 5 THEN "COLLECTION_REDISTRIBUTION"
                   ELSE "SIMPLE_FAN_OUT"
        amounts == TotalAmounts(oe)
        structured == oe # <<>> /\ 10 * similar_count(amounts) > 7 * Len(amounts)
        illicit_sources == SelectSeq(ie, LAMBDA e : e.src \in illicit)
    IN [type |-> "FAN_OUT_FAN_IN",
        confidence |-> Min(fan + reagg + (IF structured THEN 200 ELSE 0)
                           + (IF illicit_sources # <<>> THEN 300 ELSE 0), 1000),
        subtype |-> subtype,
        evidence |-> fan_ev \o reagg_ev
                     \o (IF structured
                         THEN << <<"Structured amounts", similar_count(amounts),
                                   Len(amounts)>> >>
                         ELSE <<>>)
                     \o (IF illicit_sources # <<>>
                         THEN << <<"Direct connection to illicit", Len(illicit_sources)>> >>
                         ELSE <<>>)]

\* _detect_fan_out_fan_in_pattern
detect_fan_out_fan_in_pattern(g, illicit, wallet, ie, oe) ==
    LET in_count == Len(ie)
        out_count == Len(oe)
        fan == IF out_count >= 10 THEN 500 ELSE IF out_count >= 5 THEN 300 ELSE 0
        fan_ev == IF out_count >= 10 THEN << <<"High fan-out", out_count>> >>
                  ELSE IF out_count >= 5 THEN << <<"Moderate fan-out", out_count>> >>
                  ELSE <<>>
        reagg == IF in_count >= 5 /\ out_count >= 5 THEN 300
                 ELSE IF in_count >= 3 /\ out_count >= 5 THEN 200 ELSE 0
        reagg_ev == IF in_count >= 5 /\ out_count >= 5
                    THEN << <<"Reaggregation detected", in_count, out_count>> >>
                    ELSE IF in_count >= 3 /\ out_count >= 5
                    THEN << <<"Collection point", in_count, out_count>> >>
                    ELSE <<>>
        subtype == IF in_count >= 5 /\ out_count >= 5 THEN "MULTI_LAYER_REAGGREGATION"
                   ELSE IF in_count >= 3 /\ out_count >= 5 THEN "COLLECTION_REDISTRIBUTION"
                   ELSE "SIMPLE_FAN_OUT"
        amounts == TotalAmounts(oe)
        structured == oe # <<>> /\ 10 * similar_count(amounts) > 7 * Len(amounts)
        illicit_sources == SelectSeq(ie, LAMBDA e : e.src \in illicit)
    IN [type |-> "FAN_OUT_FAN_IN",
        confidence |-> Min(fan + reagg + (IF structured THEN 200 ELSE 0)
                           + (IF illicit_sources # <<>> THEN 300 ELSE 0), 1000),
        subtype |-> subtype,
        evidence |-> fan_ev \o reagg_ev
                     \o (IF structured
                         THEN << <<"Structured amounts", similar_count(amounts),
                                   Len(amounts)>> >>
                         ELSE <<>>)
                     \o (IF illicit_sources # <<>>
                         THEN << <<"Direct connection to illicit", Len(illicit_sources)>> >>
                         ELSE <<>>)]

\* find_chain_length(current, depth=0, max_depth=10) of _detect_peeling_pattern
RECURSIVE find_chain_length(_, _, _, _)
find_chain_length(g, current, depth, max_depth) ==
    IF depth >= max_depth THEN depth
    ELSE IF Len(successors(g, current)) = 1
         THEN find_chain_length(g, successors(g, current)[1], depth + 1, max_depth)
         ELSE depth

\* sorted(..., reverse=True) of a sequence of numbers
RECURSIVE SortDescending(_)
SortDescending(s) ==
    IF s = <<>> THEN <<>>
    ELSE LET m == SeqMax(s)
             i == CHOOSE k \in 1..Len(s) : s[k] = m
         IN <<m>> \o SortDescending(SubSeq(s, 1, i - 1) \o SubSeq(s, i + 1, Len(s)))

\* _detect_peeling_pattern
detect_peeling_pattern(g, wallet, oe) ==
    IF oe = <<>>
    THEN [type |-> "PEELING_CHAIN", confidence |-> 0, subtype |-> "NONE",
          evidence |-> <<>>]
    ELSE
    LET all_lengths == [i \in 1..Len(oe) |-> find_chain_length(g, oe[i].dst, 0, 10)]
        chain_lengths == SelectSeq(all_lengths, LAMBDA n : n > 0)
        max_chain == SeqMax(chain_lengths)
        chain == IF chain_lengths = <<>> THEN 0
                 ELSE IF max_chain >= 5 THEN 600
                 ELSE IF max_chain >= 3 THEN 300 ELSE 0
        chain_ev == IF chain_lengths = <<>> THEN <<>>
                    ELSE IF max_chain >= 5 THEN << <<"Long transaction chain", max_chain>> >>
                    ELSE IF max_chain >= 3
                    THEN << <<"Medium transaction chain", max_chain>> >>
                    ELSE <<>>
        amounts == SortDescending(TotalAmounts(oe))
        \* amounts[i] > amounts[i + 1] * 1.1
        decreasing ==
            /\ chain_lengths # <<>>
            /\ Len(oe) <= 3
            /\ Len(amounts) >= 2
            /\ \A i \in 1..(Len(amounts) - 1) : 10 * amounts[i] > 11 * amounts[i + 1]
        low == Len(oe) <= 2
        confidence == chain + (IF decreasing THEN 300 ELSE 0) + (IF low THEN 200 ELSE 0)
    IN [type |-> "PEELING_CHAIN",
        confidence |-> Min(confidence, 1000),
        subtype |-> IF confidence > 500 THEN "SEQUENTIAL_PEELING"
                    ELSE "LINEAR_PROGRESSION",
        evidence |-> chain_ev
                     \o (IF decreasing THEN << <<"Sequential peeling">> >> ELSE <<>>)
                     \o (IF low THEN << <<"Linear progression", Len(oe)>> >> ELSE <<>>)]

\* _detect_cyclic_pattern of a wallet that is a node (graph.successors(wallet)
\* raises NetworkXError otherwise: see classify_laundering_pattern).
detect_cyclic_pattern(g, wallet) ==
    LET out_neighbors == successors(g, wallet)
        in_neighbors == predecessors(g, wallet)
        round_trips == Range(out_neighbors) \cap Range(in_neighbors)
        \* for neighbor in out_neighbors: if wallet in successors(neighbor)
        two_hop == \E i \in 1..Len(out_neighbors) :
                       wallet \in Range(successors(g, out_neighbors[i]))
        first_two_hop == out_neighbors[CHOOSE i \in 1..Len(out_neighbors) :
                            /\ wallet \in Range(successors(g, out_neighbors[i]))
                            /\ \A j \in 1..(i - 1) :
                                 wallet \notin Range(successors(g, out_neighbors[j]))]
        cycles_found == (IF round_trips # {} THEN Cardinality(round_trips) ELSE 0)
                        + (IF two_hop THEN 1 ELSE 0)
        destinations == successors(g, wallet)
        \* repeat_ratio = 1 - len(unique_dest) / len(destinations) > 0.5
        repetitive == /\ destinations # <<>>
                      /\ 2 * (Len(destinations) - Cardinality(Range(destinations)))
                           > Len(destinations)
    IN [type |-> "CYCLIC_WASH",
        confidence |-> Min((IF round_trips # {} THEN 400 ELSE 0)
                           + (IF two_hop THEN 300 ELSE 0)
                           + (IF repetitive THEN 300 ELSE 0), 1000),
        subtype |-> IF cycles_found > 0 THEN "CIRCULAR_WASH" ELSE "REPETITIVE_PATTERN",
        evidence |-> (IF round_trips # {}
                      THEN << <<"Direct round-trips", Cardinality(round_trips)>> >>
                      ELSE <<>>)
                     \o (IF two_hop THEN << <<"2-hop cycle", first_two_hop>> >> ELSE <<>>)
                     \o (IF repetitive THEN << <<"Repetitive transactions">> >> ELSE <<>>)]

\* all_timestamps.sort()
RECURSIVE SortAscending(_)
SortAscending(s) ==
    IF s = <<>> THEN <<>>
    ELSE LET m == SeqMin(s)
             i == CHOOSE k \in 1..Len(s) : s[k] = m
         IN <<m>> \o SortAscending(SubSeq(s, 1, i - 1) \o SubSeq(s, i + 1, Len(s)))

TemporalNeedsSixTransactions(ie, oe) ==
    LET unsorted == AllTimestamps(ie \o oe)
    IN IF Len(unsorted) < 6
       THEN [type |-> "TEMPORAL_LAYERING", confidence |-> 0,
             subtype |-> "INSUFFICIENT_DATA", evidence |-> <<>>]
       ELSE
       LET all_timestamps == SortAscending(unsorted)
           n == Len(all_timestamps)
           time_deltas == [i \in 1..(n - 1) |-> all_timestamps[i + 1] - all_timestamps[i]]
           sum_d == SumSeq(time_deltas)
           sum_sq == SumSeq([i \in 1..(n - 1) |-> time_deltas[i] * time_deltas[i]])
           time_span == all_timestamps[n] - all_timestamps[1]
           low_variance == 25 * ((n - 1) * sum_sq - sum_d * sum_d) < sum_d * sum_d
           burst == time_span < 24 /\ n > 10
           automated == low_variance /\ Len(time_deltas) > 5
           suspicious_hours ==
               Cardinality({i \in 1..n : 2 <= all_timestamps[i] % 24
                                         /\ all_timestamps[i] % 24 < 5})
           off_hours == 10 * suspicious_hours > 3 * n
       IN [type |-> "TEMPORAL_LAYERING",
           confidence |-> Min((IF burst THEN 400 ELSE 0) + (IF automated THEN 300 ELSE 0)
                              + (IF off_hours THEN 200 ELSE 0), 1000),
           subtype |-> IF time_span < 6 THEN "RAPID_BURST"
                       ELSE IF low_variance THEN "AUTOMATED_TIMING"
                       ELSE "DISTRIBUTED_LAYERING",
           evidence |-> (IF burst THEN << <<"Rapid layering", n, time_span>> >> ELSE <<>>)
                        \o (IF automated THEN << <<"Automated timing">> >> ELSE <<>>)
                        \o (IF off_hours
                            THEN << <<"Off-hours activity", suspicious_hours, n>> >>
                            ELSE <<>>)]

\* _detect_temporal_layering.  Timestamps are whole hours, so the deltas are
\* in hours; time_std < avg_delta * 0.2 is compared on the squares:
\*   variance = (n * sum(d^2) - sum(d)^2) / n^2  <  0.04 * (sum(d) / n)^2
detect_temporal_layering(ie, oe) ==
    LET unsorted == AllTimestamps(ie \o oe)
    IN IF Len(unsorted) < 5
       THEN [type |-> "TEMPORAL_LAYERING", confidence |-> 0,
             subtype |-> "INSUFFICIENT_DATA", evidence |-> <<>>]
       ELSE
       LET all_timestamps == SortAscending(unsorted)
           n == Len(all_timestamps)
           time_deltas == [i \in 1..(n - 1) |-> all_timestamps[i + 1] - all_timestamps[i]]
           sum_d == SumSeq(time_deltas)
           sum_sq == SumSeq([i \in 1..(n - 1) |-> time_deltas[i] * time_deltas[i]])
           time_span == all_timestamps[n] - all_timestamps[1]
           low_variance == 25 * ((n - 1) * sum_sq - sum_d * sum_d) < sum_d * sum_d
           burst == time_span < 24 /\ n > 10
           automated == low_variance /\ Len(time_deltas) > 5
           suspicious_hours ==
               Cardinality({i \in 1..n : 2 <= all_timestamps[i] % 24
                                         /\ all_timestamps[i] % 24 < 5})
           off_hours == 10 * suspicious_hours > 3 * n
       IN [type |-> "TEMPORAL_LAYERING",
           confidence |-> Min((IF burst THEN 400 ELSE 0) + (IF automated THEN 300 ELSE 0)
                              + (IF off_hours THEN 200 ELSE 0), 1000),
           subtype |-> IF time_span < 6 THEN "RAPID_BURST"
                       ELSE IF low_variance THEN "AUTOMATED_TIMING"
                       ELSE "DISTRIBUTED_LAYERING",
           evidence |-> (IF burst THEN << <<"Rapid layering", n, time_span>> >> ELSE <<>>)
                        \o (IF automated THEN << <<"Automated timing">> >> ELSE <<>>)
                        \o (IF off_hours
                            THEN << <<"Off-hours activity", suspicious_hours, n>> >>
                            ELSE <<>>)]

(***************************************************************************)
(* PatternClassifier: classify_laundering_pattern                          *)
(***************************************************************************)
\* patterns.sort(key=lambda x: x["confidence"], reverse=True): stable
RECURSIVE SortByConfidence(_)
SortByConfidence(ps) ==
    IF ps = <<>> THEN <<>>
    ELSE LET i == CHOOSE k \in 1..Len(ps) :
                     /\ \A j \in 1..Len(ps) : ps[j].confidence <= ps[k].confidence
                     /\ \A j \in 1..(k - 1) : ps[j].confidence < ps[k].confidence
         IN <<ps[i]>> \o SortByConfidence(SubSeq(ps, 1, i - 1) \o SubSeq(ps, i + 1, Len(ps)))

NormalActivity ==
    [type |-> "NORMAL_ACTIVITY", confidence |-> 0, subtype |-> "NO_SUSPICIOUS_PATTERN",
     evidence |-> <<>>]

\* The four detector results of a wallet that is a node, in the order in
\* which classify_laundering_pattern runs them.
DetectorResults(g, illicit, wallet) ==
    LET ie == in_edges(g, wallet)
        oe == out_edges(g, wallet)
    IN <<detect_fan_out_fan_in_pattern(g, illicit, wallet, ie, oe),
         detect_peeling_pattern(g, wallet, oe),
         detect_cyclic_pattern(g, wallet),
         detect_temporal_layering(ie, oe)>>

MergeTopOnly(patterns) ==
    IF patterns = <<>> THEN NormalActivity ELSE patterns[1]

MergeUncapped(patterns) ==
    IF patterns = <<>> THEN NormalActivity
    ELSE IF Len(patterns) >= 2 /\ patterns[2].confidence > 500
    THEN [type |-> "MIXED_STRATEGY",
          confidence |-> patterns[1].confidence + (3 * patterns[2].confidence) \div 10,
          subtype |-> <<patterns[1].type, patterns[2].type>>,
          evidence |-> patterns[1].evidence \o patterns[2].evidence,
          component_patterns |-> <<patterns[1], patterns[2]>>]
    ELSE patterns[1]

\* Lines 686-710: the verdict from the retained patterns, sorted by confidence
\* (the subtype "X_Y" is the pair <<X, Y>>).
merge_patterns(patterns) ==
    IF patterns = <<>> THEN NormalActivity
    ELSE IF Len(patterns) >= 2 /\ patterns[2].confidence > 500
    THEN [type |-> "MIXED_STRATEGY",
          confidence |->
              Min(patterns[1].confidence + (3 * patterns[2].confidence) \div 10, 1000),
          subtype |-> <<patterns[1].type, patterns[2].type>>,
          evidence |-> patterns[1].evidence \o patterns[2].evidence,
          component_patterns |-> <<patterns[1], patterns[2]>>]
    ELSE patterns[1]

ClassifyKeepsAll(g, illicit, wallet) ==
    IF ~has_node(g, wallet) THEN Raised("NetworkXError")
    ELSE Return(merge_patterns(SortByConfidence(
             SelectSeq(DetectorResults(g, illicit, wallet),
                       LAMBDA p : p.confidence > 0))))

\* classify_laundering_pattern: the cyclic detector raises for an address that
\* is no node (the two detectors before it do not).
classify_laundering_pattern(g, illicit, wallet) ==
    IF ~has_node(g, wallet) THEN Raised("NetworkXError")
    ELSE Return(merge_patterns(SortByConfidence(
             SelectSeq(DetectorResults(g, illicit, wallet),
                       LAMBDA p : p.confidence > 300))))

(***************************************************************************)
(* Exploratory search                                                      *)
(***************************************************************************)
\* sorted(records, key=lambda x: x["suspicion_score"], reverse=True): stable
RECURSIVE SortByScore(_)
SortByScore(rs) ==
    IF rs = <<>> THEN <<>>
    ELSE LET i == CHOOSE k \in 1..Len(rs) :
                     /\ \A j \in 1..Len(rs) : rs[j].suspicion_score <= rs[k].suspicion_score
                     /\ \A j \in 1..(k - 1) : rs[j].suspicion_score < rs[k].suspicion_score
         IN <<rs[i]>> \o SortByScore(SubSeq(rs, 1, i - 1) \o SubSeq(rs, i + 1, Len(rs)))

RECURSIVE Flatten(_)
Flatten(ss) == IF ss = <<>> THEN <<>> ELSE Head(ss) \o Flatten(Tail(ss))

\* nx.all_simple_paths(G, source, target, cutoff): the simple paths from
\* source to target of at most cutoff edges, in depth-first order over the
\* adjacency; source and target are nodes, source # target.
all_simple_paths(g, source, target, cutoff) ==
    LET RECURSIVE From(_)
        From(visited) ==
            LET children == successors(g, visited[Len(visited)])
            IN Flatten([i \in 1..Len(children) |->
                   IF children[i] \in Range(visited) THEN <<>>
                   ELSE IF children[i] = target THEN <<Append(visited, target)>>
                   ELSE IF Len(visited) < cutoff
                        THEN From(Append(visited, children[i]))
                        ELSE <<>>])
    IN IF cutoff < 1 THEN <<>> ELSE From(<<source>>)

\* _analyze_pattern(path)
analyze_pattern(g, path) ==
    LET hops == [i \in 1..(Len(path) - 1) |-> EdgeData(g, path[i], path[i + 1])]
        total_amount == SumSeq(TotalAmounts(hops))
        transaction_count == SumSeq([i \in 1..Len(hops) |-> hops[i].transaction_count])
        timestamps == AllTimestamps(hops)
        duration == SeqMax(timestamps) - SeqMin(timestamps)
        suspicion ==
            (IF Len(path) >= 5 THEN 300 ELSE IF Len(path) >= 3 THEN 200 ELSE 0)
            + (IF total_amount > 10000 /\ Len(path) >= 3 THEN 300 ELSE 0)
            + (IF transaction_count > 20 THEN 200 ELSE 0)
            + (IF timestamps # <<>> /\ duration < 24 THEN 200 ELSE 0)
    IN [suspicion_score |-> Min(suspicion, 1000),
        total_amount |-> total_amount,
        transaction_count |-> transaction_count,
        path_length |-> Len(path),
        time_span_hours |-> IF timestamps # <<>> THEN duration ELSE 0]

DirectSmurfingFlatScore(g, illicit, wallet) ==
    LET ie == in_edges(g, wallet)
        oe == out_edges(g, wallet)
        illicit_sources == IllicitSources(g, illicit, wallet)
        illicit_edges == SelectSeq(ie, LAMBDA e : e.src \in illicit)
        all_timestamps == AllTimestamps(illicit_edges \o oe)
        destinations == [i \in 1..Len(oe) |-> oe[i].dst]
    IN IF Len(ie) > 0 /\ Len(oe) >= 5 /\ illicit_sources # <<>>
       THEN << [source |-> illicit_sources[1],
                intermediary |-> wallet,
                destinations |-> destinations,
                path |-> <<illicit_sources[1], wallet>> \o destinations,
                intermediaries |-> {wallet},
                suspicion_score |-> 900,
                pattern_type |-> "direct_smurfing_from_illicit",
                metrics |->
                    [total_amount |-> SumSeq(TotalAmounts(illicit_edges)),
                     transaction_count |->
                         SumSeq([i \in 1..Len(oe) |-> oe[i].transaction_count]),
                     path_length |-> 2,
                     fan_out_count |-> Len(oe),
                     time_span_hours |->
                         IF all_timestamps # <<>>
                         THEN SeqMax(all_timestamps) - SeqMin(all_timestamps)
                         ELSE 0]] >>
       ELSE <<>>

\* Lines 69-127: the record for direct fan-out from an illicit source, or none.
direct_smurfing(g, illicit, wallet) ==
    LET ie == in_edges(g, wallet)
        oe == out_edges(g, wallet)
        illicit_sources == IllicitSources(g, illicit, wallet)
        illicit_edges == SelectSeq(ie, LAMBDA e : e.src \in illicit)
        all_timestamps == AllTimestamps(illicit_edges \o oe)
        destinations == [i \in 1..Len(oe) |-> oe[i].dst]
    IN IF Len(ie) > 0 /\ Len(oe) >= 5 /\ illicit_sources # <<>>
       THEN << [source |-> illicit_sources[1],
                intermediary |-> wallet,
                destinations |-> destinations,
                path |-> <<illicit_sources[1], wallet>> \o destinations,
                intermediaries |-> {wallet},
                suspicion_score |-> IF Len(oe) > 10 THEN 950 ELSE 900,
                pattern_type |-> "direct_smurfing_from_illicit",
                metrics |->
                    [total_amount |-> SumSeq(TotalAmounts(illicit_edges)),
                     transaction_count |->
                         SumSeq([i \in 1..Len(oe) |-> oe[i].transaction_count]),
                     path_length |-> 2,
                     fan_out_count |-> Len(oe),
                     time_span_hours |->
                         IF all_timestamps # <<>>
                         THEN SeqMax(all_timestamps) - SeqMin(all_timestamps)
                         ELSE 0]] >>
       ELSE <<>>

MultiHopIgnoresMinimum(g, wallet, max_depth, min_intermediaries) ==
    LET ForPath(target, path) ==
            IF Len(path) >= 3
               /\ analyze_pattern(g, path).suspicion_score > 500
            THEN << [source |-> wallet,
                     destination |-> target,
                     path |-> path,
                     intermediaries |-> Range(SubSeq(path, 2, Len(path) - 1)),
                     suspicion_score |-> analyze_pattern(g, path).suspicion_score,
                     pattern_type |-> "multi_hop_smurfing",
                     metrics |-> analyze_pattern(g, path)] >>
            ELSE <<>>
        ForTarget(target) ==
            IF target = wallet \/ ~has_node(g, wallet) THEN <<>>
            ELSE LET paths == all_simple_paths(g, wallet, target, max_depth)
                 IN Flatten([k \in 1..Len(paths) |-> ForPath(target, paths[k])])
    IN Flatten([i \in 1..Len(g.nodes) |-> ForTarget(g.nodes[i])])

\* Lines 129-163: the multi-hop records, target by target in node order.
\* all_simple_paths raises NodeNotFound for a wallet that is no node, and the
\* except clause skips the target.
multi_hop_smurfing(g, wallet, max_depth, min_intermediaries) ==
    LET ForPath(target, path) ==
            IF Len(path) >= 3
               /\ Cardinality(Range(SubSeq(path, 2, Len(path) - 1))) >= min_intermediaries
               /\ analyze_pattern(g, path).suspicion_score > 500
            THEN << [source |-> wallet,
                     destination |-> target,
                     path |-> path,
                     intermediaries |-> Range(SubSeq(path, 2, Len(path) - 1)),
                     suspicion_score |-> analyze_pattern(g, path).suspicion_score,
                     pattern_type |-> "multi_hop_smurfing",
                     metrics |-> analyze_pattern(g, path)] >>
            ELSE <<>>
        ForTarget(target) ==
            IF target = wallet \/ ~has_node(g, wallet) THEN <<>>
            ELSE LET paths == all_simple_paths(g, wallet, target, max_depth)
                 IN Flatten([k \in 1..Len(paths) |-> ForPath(target, paths[k])])
    IN Flatten([i \in 1..Len(g.nodes) |-> ForTarget(g.nodes[i])])

FanOutFanInWithBypass(g, illicit, wallet, max_depth, min_intermediaries) ==
    IF direct_smurfing(g, illicit, wallet) # <<>>
    THEN direct_smurfing(g, illicit, wallet)
    ELSE SortByScore(multi_hop_smurfing(g, wallet, max_depth, min_intermediaries))

\* detect_fan_out_fan_in(wallet, max_depth, min_intermediaries)
detect_fan_out_fan_in(g, illicit, wallet, max_depth, min_intermediaries) ==
    SortByScore(direct_smurfing(g, illicit, wallet)
                \o multi_hop_smurfing(g, wallet, max_depth, min_intermediaries))

\* _is_peeling_pattern(amounts): amounts[i] < amounts[i - 1] * 0.95 for at
\* least len(amounts) * 0.7 of the indices
is_peeling_pattern(amounts) ==
    IF Len(amounts) < 3 THEN FALSE
    ELSE 10 * Cardinality({i \in 2..Len(amounts) : 100 * amounts[i] < 95 * amounts[i - 1]})
         >= 7 * Len(amounts)

\* _calculate_peeling_score(amounts)
calculate_peeling_score(amounts) ==
    IF amounts = <<>> THEN 0
    ELSE LET first == amounts[1]
             final == amounts[Len(amounts)]
         IN Min((IF Len(amounts) >= 10 THEN 400 ELSE IF Len(amounts) >= 5 THEN 200 ELSE 0)
                \* 0.1 < (amounts[0] - amounts[-1]) / amounts[0] < 0.5
                + (IF first > 0 /\ 10 * (first - final) > first /\ 2 * (first - final) < first
                   THEN 300 ELSE 0)
                + (IF first > 10000 THEN 300 ELSE 0),
                1000)

PeelingChainLatestAmounts(g, wallet, min_hops) ==
    LET RECURSIVE Bfs(_, _, _)
        Bfs(queue, visited, chains) ==
            IF queue = <<>> THEN chains
            ELSE LET current == Head(queue).current
                     path == Head(queue).path
                     amounts == Head(queue).amounts
                 IN IF current \in visited /\ Len(path) > 1
                    THEN Bfs(Tail(queue), visited, chains)
                    ELSE LET found ==
                                 IF Len(path) >= min_hops /\ is_peeling_pattern(amounts)
                                 THEN << [source |-> wallet,
                                          chain |-> path,
                                          amounts |-> amounts,
                                          total_peeled |->
                                              IF amounts # <<>>
                                              THEN SumSeq(amounts) - amounts[Len(amounts)]
                                              ELSE 0,
                                          suspicion_score |->
                                              calculate_peeling_score(amounts)] >>
                                 ELSE <<>>
                             oe == out_edges(g, current)
                             more == Flatten([i \in 1..Len(oe) |->
                                        IF oe[i].dst \in Range(path) THEN <<>>
                                        ELSE << [current |-> oe[i].dst,
                                                 path |-> Append(path, oe[i].dst),
                                                 amounts |->
                                                     Append(amounts,
                                                       oe[i].transactions[Len(oe[i].transactions)].amount)] >>])
                         IN Bfs(Tail(queue) \o more, visited \cup {current}, chains \o found)
    IN IF ~has_node(g, wallet) THEN Raised("NetworkXError")
       ELSE Return(SortByScore(
                Bfs(<< [current |-> wallet, path |-> <<wallet>>, amounts |-> <<>>] >>,
                    {}, <<>>)))

\* detect_peeling_chain(wallet, min_hops): the queue holds (current, path,
\* amounts); visited is one set for the whole search.  graph.neighbors raises
\* for an address that is no node.
detect_peeling_chain(g, wallet, min_hops) ==
    LET RECURSIVE Bfs(_, _, _)
        Bfs(queue, visited, chains) ==
            IF queue = <<>> THEN chains
            ELSE LET current == Head(queue).current
                     path == Head(queue).path
                     amounts == Head(queue).amounts
                 IN IF current \in visited /\ Len(path) > 1
                    THEN Bfs(Tail(queue), visited, chains)
                    ELSE LET found ==
                                 IF Len(path) >= min_hops /\ is_peeling_pattern(amounts)
                                 THEN << [source |-> wallet,
                                          chain |-> path,
                                          amounts |-> amounts,
                                          total_peeled |->
                                              IF amounts # <<>>
                                              THEN SumSeq(amounts) - amounts[Len(amounts)]
                                              ELSE 0,
                                          suspicion_score |->
                                              calculate_peeling_score(amounts)] >>
                                 ELSE <<>>
                             oe == out_edges(g, current)
                             more == Flatten([i \in 1..Len(oe) |->
                                        IF oe[i].dst \in Range(path) THEN <<>>
                                        ELSE << [current |-> oe[i].dst,
                                                 path |-> Append(path, oe[i].dst),
                                                 amounts |->
                                                     Append(amounts, oe[i].total_amount)] >>])
                         IN Bfs(Tail(queue) \o more, visited \cup {current}, chains \o found)
    IN IF ~has_node(g, wallet) THEN Raised("NetworkXError")
       ELSE Return(SortByScore(
                Bfs(<< [current |-> wallet, path |-> <<wallet>>, amounts |-> <<>>] >>,
                    {}, <<>>)))

\* How often the `while queue:` loop of detect_peeling_chain pops an entry
\* (lines 180-205) when the search starts at a wallet that is a node.
peeling_iterations(g, wallet) ==
    LET RECURSIVE Pops(_, _, _)
        Pops(queue, visited, n) ==
            IF queue = <<>> THEN n
            ELSE LET current == Head(queue).current
                     path == Head(queue).path
                 IN IF current \in visited /\ Len(path) > 1
                    THEN Pops(Tail(queue), visited, n + 1)
                    ELSE LET oe == out_edges(g, current)
                             more == Flatten([i \in 1..Len(oe) |->
                                        IF oe[i].dst \in Range(path) THEN <<>>
                                        ELSE << [current |-> oe[i].dst,
                                                 path |-> Append(path, oe[i].dst)] >>])
                         IN Pops(Tail(queue) \o more, visited \cup {current}, n + 1)
    IN Pops(<< [current |-> wallet, path |-> <<wallet>>] >>, {}, 0)

(***************************************************************************)
(* Actions: one per public operation of CryptoGraphAnalyzer.  `last` holds *)
(* the latest call, whether it repeats the call before it, and what it     *)
(* returned.                                                               *)
(***************************************************************************)
Topology(g) == [i \in 1..Len(g.edges) |-> <<g.edges[i].src, g.edges[i].dst>>]

ReadOnlyOps ==
    {"get_wallet_summary", "calculate_suspicion_score", "calculate_suspicion_breakdown",
     "calculate_wallet_centrality", "classify_laundering_pattern",
     "detect_fan_out_fan_in", "detect_peeling_chain"}

\* The call `last` was made with the same operation and arguments.
Repeats(op, args) == last.op = op /\ last.args = args

\* The HTTP requests to /crypto/batch-analyze that the server may be handling
\* at once, each in a thread of its own.
RequestIds == {1, 2}

NoSetup == [graph |-> EmptyGraph, illicit_wallets |-> {"-"}]

\* A request that has not arrived yet.
IdleRequest ==
    [pc |-> "idle", known_illicit_wallets |-> {}, wallets_to_analyze |-> <<>>,
     setup |-> NoSetup, analysed |-> NoSetup, results |-> <<>>]

Init ==
    /\ graph = EmptyGraph
    /\ illicit_wallets = {}
    /\ nx_oracle = [betweenness |-> 0, pagerank |-> 0]
    /\ loaded = << >>
    /\ n_loads = 0
    /\ last = [op |-> "init"]
    /\ requests = [r \in RequestIds |-> IdleRequest]
    /\ cases_db = << >>
    /\ case_counter = 1
    /\ open_cases = 0

\* load_transactions(batch); networkx may answer anything of `answers` for the
\* new topology.
Load(batch, answers, max_loads) ==
    /\ n_loads < max_loads
    /\ n_loads' = n_loads + 1
    /\ graph' = load_transactions(graph, batch)
    /\ loaded' = Record(loaded, batch)
    /\ IF Topology(graph') = Topology(graph)
       THEN UNCHANGED nx_oracle
       ELSE nx_oracle' \in answers
    /\ last' = [op |-> "load_transactions"]
    /\ UNCHANGED <<illicit_wallets, requests, case_vars>>

MarkIllicitWallets(illicit_wallet_list) ==
    /\ illicit_wallets' = mark_illicit_wallets(illicit_wallets, illicit_wallet_list)
    /\ last' = [op |-> "mark_illicit_wallets", illicit_wallet_list |-> illicit_wallet_list]
    /\ UNCHANGED <<graph, nx_oracle, loaded, n_loads, requests, case_vars>>

Unmutated ==
    UNCHANGED <<graph, illicit_wallets, nx_oracle, loaded, n_loads, requests, case_vars>>

Called(op, args, out) ==
    last' = [op |-> op, args |-> args, again |-> Repeats(op, args), out |-> out]

GetWalletSummary(wallet) ==
    /\ Called("get_wallet_summary", <<wallet>>,
              get_wallet_summary(graph, illicit_wallets, nx_oracle, wallet))
    /\ Unmutated

CalculateSuspicionScore(wallet) ==
    /\ Called("calculate_suspicion_score", <<wallet>>,
              Return(calculate_suspicion_score(graph, illicit_wallets, nx_oracle, wallet)))
    /\ Unmutated

BreakdownTaintsWallet(wallet) ==
    /\ Called("calculate_suspicion_breakdown", <<wallet>>,
              Return(calculate_suspicion_breakdown(graph, illicit_wallets, wallet)))
    /\ illicit_wallets' =
           IF distance_to_illicit_wallets(graph, illicit_wallets, wallet) = 1
           THEN illicit_wallets \cup {wallet} ELSE illicit_wallets
    /\ UNCHANGED <<graph, nx_oracle, loaded, n_loads, requests, case_vars>>

CalculateSuspicionBreakdown(wallet) ==
    /\ Called("calculate_suspicion_breakdown", <<wallet>>,
              Return(calculate_suspicion_breakdown(graph, illicit_wallets, wallet)))
    /\ Unmutated

CalculateWalletCentrality(wallet) ==
    /\ Called("calculate_wallet_centrality", <<wallet>>,
              Return(calculate_wallet_centrality(graph, nx_oracle, wallet)))
    /\ Unmutated

ClassifyLaunderingPattern(wallet) ==
    /\ Called("classify_laundering_pattern", <<wallet>>,
              classify_laundering_pattern(graph, illicit_wallets, wallet))
    /\ Unmutated

DetectFanOutFanIn(wallet, max_depth, min_intermediaries) ==
    /\ Called("detect_fan_out_fan_in", <<wallet, max_depth, min_intermediaries>>,
              Return(detect_fan_out_fan_in(graph, illicit_wallets, wallet,
                                           max_depth, min_intermediaries)))
    /\ Unmutated

PeelingChainAddsWallet(wallet, min_hops) ==
    /\ Called("detect_peeling_chain", <<wallet, min_hops>>,
              detect_peeling_chain(graph, wallet, min_hops))
    /\ graph' = IF has_node(graph, wallet) THEN graph
                ELSE [graph EXCEPT !.nodes = Append(@, wallet)]
    /\ UNCHANGED <<illicit_wallets, nx_oracle, loaded, n_loads, requests, case_vars>>

DetectPeelingChain(wallet, min_hops) ==
    /\ Called("detect_peeling_chain", <<wallet, min_hops>>,
              detect_peeling_chain(graph, wallet, min_hops))
    /\ Unmutated

(***************************************************************************)
(* Spec: arbitrary records over three addresses                            *)
(***************************************************************************)
IllicitLists == {{}, {"A"}, {"B", "Z"}}

Next ==
    \/ \E batch \in {<<>>} \cup {<<r>> : r \in TxnRecords} :
           Load(batch, {[betweenness |-> 0, pagerank |-> 250]}, MaxLoads)
    \/ \E l \in IllicitLists : MarkIllicitWallets(l)
    \/ GetWalletSummary("A")
    \/ CalculateSuspicionScore("A")
    \/ CalculateSuspicionBreakdown("A")
    \/ CalculateWalletCentrality("A")
    \/ ClassifyLaunderingPattern("A")
    \/ DetectFanOutFanIn("A", 3, 1)
    \/ DetectPeelingChain("A", 3)

Spec == Init /\ [][Next]_vars

(***************************************************************************)
(* SpecPattern: laundering scenarios around a hub wallet H.  A batch is    *)
(* one of the scenarios below; batches accumulate in any order.            *)
(***************************************************************************)
DNames == <<"D01", "D02", "D03", "D04", "D05", "D06", "D07", "D08", "D09", "D10",
            "D11", "D12", "D13", "D14", "D15", "D16", "D17", "D18", "D19", "D20">>
SNames == <<"S01", "S02", "S03", "S04", "S05">>

Txn(s, d, a, t) ==
    [source_wallet |-> s, dest_wallet |-> d, amount |-> a, timestamp |-> t,
     token_type |-> NoToken]

\* H sends `amount` to each of its first n destinations in the same hour.
FanOut(n, amount) == [i \in 1..n |-> Txn("H", DNames[i], amount, 0)]
\* X pays H, then H fans out to n destinations.
SmurfHub(n) == <<Txn("X", "H", 200, 1)>> \o FanOut(n, 100)
\* The first n destinations pass the money round in a ring.
Ring(n) == [i \in 1..n |-> Txn(DNames[i], DNames[(i % n) + 1], 6000, 2)]
\* n sources pay H.
FanIn(n) == [i \in 1..n |-> Txn(SNames[i], "H", 2000, 30)]
\* H pays X a small amount.
IllicitOut == <<Txn("H", "X", 50, 3)>>

Scenarios == {SmurfHub(5), SmurfHub(12), Ring(5), FanIn(5), IllicitOut}

NxAnswers == {[betweenness |-> 500, pagerank |-> 400]}

PatternIllicitLists == {{}, {"X"}, {"H"}}

NextPattern ==
    \/ \E batch \in Scenarios : Load(batch, NxAnswers, MaxScenarioLoads)
    \/ \E l \in PatternIllicitLists : MarkIllicitWallets(l)
    \/ \E wallet \in {"H"} :
           \/ GetWalletSummary(wallet)
           \/ CalculateSuspicionScore(wallet)
           \/ CalculateSuspicionBreakdown(wallet)
           \/ CalculateWalletCentrality(wallet)
           \/ ClassifyLaunderingPattern(wallet)
           \/ \E max_depth \in {3, 4} : DetectFanOutFanIn(wallet, max_depth, 3)
           \/ DetectPeelingChain(wallet, 5)

SpecPattern == Init /\ [][NextPattern]_vars

(***************************************************************************)
(* SpecChain: peeling chains.  P1 -> P2 -> ... -> P6 loses about 6 per hop; *)
(* a side branch P1 -> Q -> P3 merges into the chain's tail.               *)
(***************************************************************************)
PNames == <<"P1", "P2", "P3", "P4", "P5", "P6">>
ChainAmounts == <<100, 94, 88, 82, 76>>

\* The chain's first k wallets: k - 1 hops, one hour apart.
Chain(k) == [i \in 1..(k - 1) |-> Txn(PNames[i], PNames[i + 1], ChainAmounts[i], i)]
Branch == <<Txn("P1", "Q", 100, 1), Txn("Q", "P3", 94, 2)>>

\* P3 pays back to P1 and P2 pays itself.
Loop == <<Txn("P3", "P1", 70, 7), Txn("P2", "P2", 5, 8)>>
ChainScenarios == {Chain(3), Chain(4), Chain(5), Chain(6), Branch, Loop}

\* Amount sequences handed to _is_peeling_pattern.
AmountSequences ==
    UNION {[1..n -> {100, 90}] : n \in 0..4}
    \cup {<<100, 90, 80>>, <<100, 90, 80, 70>>, <<100, 90, 80, 70, 60>>}

\* _is_peeling_pattern(amounts), as detect_peeling_chain calls it.
IsPeelingPattern(amounts) ==
    /\ Called("_is_peeling_pattern", <<amounts>>, Return(is_peeling_pattern(amounts)))
    /\ Unmutated

ChainIllicitLists == {{"P1"}, {"P2"}, {"P4"}, {"P6"}}

NextChain ==
    \/ \E batch \in ChainScenarios : Load(batch, NxAnswers, MaxScenarioLoads)
    \/ \E l \in ChainIllicitLists : MarkIllicitWallets(l)
    \/ \E wallet \in {"P1", "P3"} : CalculateSuspicionBreakdown(wallet)
    \/ \E min_hops \in {3, 4, 5} : DetectPeelingChain("P1", min_hops)
    \/ \E amounts \in AmountSequences : IsPeelingPattern(amounts)

SpecChain == Init /\ [][NextChain]_vars

(***************************************************************************)
(* SpecDetect: the four pattern detectors on a hub "H"                     *)
(***************************************************************************)
\* _detect_fan_out_fan_in_pattern(wallet, in_edges, out_edges), with the edge
\* lists that classify_laundering_pattern hands over.
DetectFanOutFanInPattern(wallet) ==
    /\ Called("_detect_fan_out_fan_in_pattern", <<wallet>>,
              Return(detect_fan_out_fan_in_pattern(graph, illicit_wallets, wallet,
                         in_edges(graph, wallet), out_edges(graph, wallet))))
    /\ Unmutated

\* _detect_peeling_pattern(wallet, out_edges)
DetectPeelingPattern(wallet) ==
    /\ Called("_detect_peeling_pattern", <<wallet>>,
              Return(detect_peeling_pattern(graph, wallet, out_edges(graph, wallet))))
    /\ Unmutated

\* _detect_cyclic_pattern(wallet): graph.successors raises for a wallet that
\* is no node.
DetectCyclicPattern(wallet) ==
    /\ Called("_detect_cyclic_pattern", <<wallet>>,
              IF has_node(graph, wallet)
              THEN Return(detect_cyclic_pattern(graph, wallet))
              ELSE Raised("NetworkXError"))
    /\ Unmutated

\* _detect_temporal_layering(wallet, in_edges, out_edges)
DetectTemporalLayering(wallet) ==
    /\ Called("_detect_temporal_layering", <<wallet>>,
              Return(detect_temporal_layering(in_edges(graph, wallet),
                                              out_edges(graph, wallet))))
    /\ Unmutated

\* H pays two destinations, the second less than the first by more than 10%.
Peel == <<Txn("H", "D01", 1000, 2), Txn("H", "D02", 500, 4)>>
\* H -> D03 -> X -> H, without a direct round trip.
Cycle3 == <<Txn("H", "D03", 70, 5), Txn("D03", "X", 60, 6), Txn("X", "H", 50, 7)>>
\* Five transfers from H to the same counterparty, six hours apart.
Repeat == [i \in 1..5 |-> Txn("H", "D05", 10, 6 * i)]

DetectScenarios ==
    {SmurfHub(5), SmurfHub(12), FanIn(2), FanIn(5), Peel, Ring(5), Cycle3,
     IllicitOut, Repeat}

DetectIllicitLists == {{}, {"X"}}

NextDetect ==
    \/ \E batch \in DetectScenarios : Load(batch, NxAnswers, MaxScenarioLoads)
    \/ \E l \in DetectIllicitLists : MarkIllicitWallets(l)
    \/ DetectFanOutFanInPattern("H")
    \/ DetectPeelingPattern("H")
    \/ DetectCyclicPattern("H")
    \/ DetectTemporalLayering("H")
    \/ ClassifyLaunderingPattern("H")
    \/ CalculateSuspicionScore("H")

SpecDetect == Init /\ [][NextDetect]_vars

(***************************************************************************)
(* SpecBatch: concurrent requests to /crypto/batch-analyze                 *)
(*                                                                         *)
(* The handler works on the module-level graph_analyzer without a lock,    *)
(* and the server handles each request in its own thread: the threads      *)
(* interleave between the analyzer's method calls.                         *)
(***************************************************************************)
BatchInputs == {SmurfHub(5), IllicitOut}
BatchIllicitLists == {{}, {"X"}}

\* The request is parsed and graph_analyzer.load_transactions(transactions)
\* runs on the shared analyzer.
BatchLoad(r, transactions, known_illicit_wallets, specific_wallets) ==
    /\ requests[r].pc = "idle"
    /\ graph' = load_transactions(graph, transactions)
    /\ loaded' = Record(loaded, transactions)
    /\ n_loads' = n_loads + 1
    /\ IF Topology(graph') = Topology(graph)
       THEN UNCHANGED nx_oracle
       ELSE nx_oracle' \in NxAnswers
    /\ requests' = [requests EXCEPT ![r] =
           [@ EXCEPT !.pc = "loaded",
                     !.known_illicit_wallets = known_illicit_wallets,
                     !.wallets_to_analyze = specific_wallets]]
    /\ UNCHANGED <<illicit_wallets, last, case_vars>>

\* graph_analyzer.mark_illicit_wallets(illicit_wallets): with it the request
\* has set up the graph and the illicit set it means to analyse.
BatchMark(r) ==
    /\ requests[r].pc = "loaded"
    /\ illicit_wallets' =
           mark_illicit_wallets(illicit_wallets, requests[r].known_illicit_wallets)
    /\ requests' = [requests EXCEPT ![r] =
           [@ EXCEPT !.pc = "analyse",
                     !.setup = [graph |-> graph, illicit_wallets |-> illicit_wallets']]]
    /\ UNCHANGED <<graph, nx_oracle, loaded, n_loads, last, case_vars>>

\* One turn of the loop over wallets_to_check: the summary, the pattern and
\* the breakdown of the next wallet, read from the shared analyzer as it is
\* now. An exception ends the request with status 500.
BatchAnalyze(r) ==
    /\ requests[r].pc = "analyse"
    /\ LET wallet == Head(requests[r].wallets_to_analyze)
           summary == get_wallet_summary(graph, illicit_wallets, nx_oracle, wallet)
           pattern == classify_laundering_pattern(graph, illicit_wallets, wallet)
           failed == summary.status = "raised" \/ pattern.status = "raised"
           result == [wallet |-> wallet, summary |-> summary, pattern |-> pattern,
                      breakdown |-> IF failed THEN <<>>
                                    ELSE calculate_suspicion_breakdown(
                                             graph, illicit_wallets, wallet)]
       IN requests' = [requests EXCEPT ![r] =
              [@ EXCEPT !.pc = IF failed THEN "failed"
                               ELSE IF Len(requests[r].wallets_to_analyze) = 1
                                    THEN "done"
                               ELSE "analyse",
                        !.wallets_to_analyze = Tail(@),
                        !.analysed = [graph |-> graph, illicit_wallets |-> illicit_wallets],
                        !.results = Append(@, result)]]
    /\ UNCHANGED <<graph, illicit_wallets, nx_oracle, loaded, n_loads, last, case_vars>>

NextBatch ==
    \/ \E r \in RequestIds, transactions \in BatchInputs,
          known_illicit_wallets \in BatchIllicitLists,
          specific_wallets \in {<<"H">>, <<"H", "X">>} :
           BatchLoad(r, transactions, known_illicit_wallets, specific_wallets)
    \/ \E r \in RequestIds : BatchMark(r)
    \/ \E r \in RequestIds : BatchAnalyze(r)

SpecBatch == Init /\ [][NextBatch]_vars

(***************************************************************************)
(* SpecCases: the investigation cases of app.py and the dashboard counter  *)
(* open_cases.  A case is identified by the number in its case_id; of a    *)
(* case only the status is kept.                                           *)
(***************************************************************************)
\* At most this many cases are created between two resets.
MaxCases == 3
\* The counter is followed down to this far below zero.
MaxDrift == 2

Statuses == {"New", "In Progress", "Closed"}

analyzer_vars == <<graph, illicit_wallets, nx_oracle, loaded, n_loads, last, requests>>

\* dict.pop / del cases_db[case_id]
Without(db, case_id) == [c \in DOMAIN db \ {case_id} |-> db[c]]

\* POST /api/cases
create_case ==
    /\ case_counter <= MaxCases
    /\ cases_db' = (case_counter :> [status |-> "New"]) @@ cases_db
    /\ case_counter' = case_counter + 1
    /\ open_cases' = open_cases + 1
    /\ UNCHANGED analyzer_vars

\* PATCH /api/cases/<case_id> with a status in the body.  An unknown case_id
\* answers 404 and changes nothing.
update_case(case_id, status) ==
    /\ case_id \in DOMAIN cases_db
    /\ open_cases > -MaxDrift
    /\ LET old_status == cases_db[case_id].status
       IN /\ cases_db' = [cases_db EXCEPT ![case_id].status = status]
          /\ open_cases' = IF old_status # "Closed" /\ status = "Closed"
                           THEN open_cases - 1 ELSE open_cases
    /\ UNCHANGED <<case_counter, analyzer_vars>>

\* DELETE /api/cases/<case_id>
delete_case(case_id) ==
    /\ case_id \in DOMAIN cases_db
    /\ open_cases > -MaxDrift
    /\ open_cases' = IF cases_db[case_id].status # "Closed"
                     THEN open_cases - 1 ELSE open_cases
    /\ cases_db' = Without(cases_db, case_id)
    /\ UNCHANGED <<case_counter, analyzer_vars>>

\* POST /api/dashboard/reset
reset_dashboard_data ==
    /\ cases_db' = << >>
    /\ case_counter' = 1
    /\ open_cases' = 0
    /\ UNCHANGED analyzer_vars

NextCases ==
    \/ create_case
    \/ \E case_id \in 1..MaxCases, status \in Statuses : update_case(case_id, status)
    \/ \E case_id \in 1..MaxCases : delete_case(case_id)
    \/ reset_dashboard_data

SpecCases == Init /\ [][NextCases]_vars

(***************************************************************************)
(* Properties of the transaction graph store                               *)
(***************************************************************************)
\* C1: after any sequence of load_transactions calls the graph holds at most
\* one aggregate edge per ordered (source, dest) pair.
C1_OneEdgePerPair ==
    \A i, j \in 1..Len(graph.edges) :
        (graph.edges[i].src = graph.edges[j].src /\ graph.edges[i].dst = graph.edges[j].dst)
            => i = j

\* A self-transfer was loaded twice: the pair A -> A has two records behind
\* its one edge.
C1_Witness ==
    /\ <<"A", "A">> \in DOMAIN loaded
    /\ Len(loaded[<<"A", "A">>]) = 2
    /\ has_edge(graph, "A", "A")

\* C2: for every ordered pair the edge's transactions list is exactly the
\* records loaded for the pair, in load order; transaction_count is its length
\* and total_amount the sum of its amounts; a pair has an edge as soon as a
\* record was loaded for it.
C2_EdgeIsLoadedHistory ==
    /\ \A p \in DOMAIN loaded : has_edge(graph, p[1], p[2])
    /\ \A i \in 1..Len(graph.edges) :
           LET e == graph.edges[i]
               history == LoadedFor(loaded, <<e.src, e.dst>>)
           IN /\ e.transactions = history
              /\ e.transaction_count = Len(history)
              /\ e.total_amount = SumSeq([k \in 1..Len(history) |-> history[k].amount])

\* A -> B 10 then A -> B 5: one edge, total 15, count 2, list of length 2.
C2_Witness ==
    /\ has_edge(graph, "A", "B")
    /\ Len(graph.edges) = 1
    /\ [k \in 1..Len(graph.edges[1].transactions) |-> graph.edges[1].transactions[k].amount]
           = <<10, 5>>
    /\ graph.edges[1].total_amount = 15
    /\ graph.edges[1].transaction_count = 2

(***************************************************************************)
(* Properties of the analyses                                              *)
(***************************************************************************)
\* What a zero/neutral result of each analysis is.
NeutralResult(op, v) ==
    CASE op = "get_wallet_summary" ->
             v.suspicion_score = 0 /\ v.total_received = 0 /\ v.total_sent = 0
             /\ v.unique_senders = 0 /\ v.unique_receivers = 0
      [] op = "calculate_suspicion_score" -> v = 0
      [] op = "calculate_suspicion_breakdown" -> v.total_suspicion_score = 0
      [] op = "calculate_wallet_centrality" -> v = ZeroCentrality
      [] op = "classify_laundering_pattern" -> v = NormalActivity
      [] op = "detect_fan_out_fan_in" -> v = <<>>
      [] op = "detect_peeling_chain" -> v = <<>>

\* C3: for a wallet that is not a node of the graph every analysis operation
\* returns a defined zero/neutral result and never ends in an error.
C3_AbsentWalletIsNeutral ==
    (last.op \in ReadOnlyOps /\ ~has_node(graph, last.args[1]))
        => (last.out.status = "returned" /\ NeutralResult(last.op, last.out.value))

\* C5: two consecutive calls of the same read-only analysis with the same
\* arguments, with no load_transactions or mark_illicit_wallets call in
\* between, return identical results.
C5_RepeatedAnalysisAgrees ==
    [][(last'.op \in ReadOnlyOps \ {"calculate_wallet_centrality"} /\ last'.again)
           => last'.out = last.out]_vars

\* A classification that found a mixed strategy was asked for again.
C5_Witness ==
    /\ last.op = "classify_laundering_pattern"
    /\ last.again
    /\ last.out.status = "returned"
    /\ last.out.value.type = "MIXED_STRATEGY"

\* The wallets reached from s by a walk of exactly k edges.
RECURSIVE WalkEnds(_, _, _)
WalkEnds(g, s, k) ==
    IF k = 0 THEN {s}
    ELSE LET before == WalkEnds(g, s, k - 1)
         IN {g.edges[i].dst : i \in {j \in 1..Len(g.edges) : g.edges[j].src \in before}}

\* Some illicit wallet is k edges away from the wallet, in either direction.
IllicitWithin(g, illicit, wallet, k) ==
    \E i \in illicit : i \in WalkEnds(g, wallet, k) \/ wallet \in WalkEnds(g, i, k)

\* The distance that the latest summary or breakdown reported.
ReportedDistance ==
    IF last.op = "get_wallet_summary"
    THEN last.out.value.distance_to_illicit
    ELSE last.out.value.components.illicit_proximity_score.distance_to_illicit

ReportsDistance ==
    /\ last.op \in {"get_wallet_summary", "calculate_suspicion_breakdown"}
    /\ last.out.status = "returned"

\* C6: the distance to illicit wallets is 0 for an illicit wallet; otherwise
\* the least number of edges of a directed path between the wallet and an
\* illicit wallet, in either direction; and -1 when there is no such path
\* (empty illicit set and illicit addresses that are no nodes included).
C6_DistanceToNearestIllicit ==
    ReportsDistance =>
        LET wallet == last.args[1]
            ks == {k \in 1..Len(graph.nodes) :
                      IllicitWithin(graph, illicit_wallets, wallet, k)}
        IN IF wallet \in illicit_wallets THEN ReportedDistance = 0
           ELSE IF ks = {} THEN ReportedDistance = -1
           ELSE ReportedDistance \in ks /\ \A k \in ks : ReportedDistance <= k

\* The only illicit node is two edges upstream of the wallet, which sends
\* nothing; the other illicit address is no node.
C6_Witness ==
    /\ ReportsDistance
    /\ last.op = "calculate_suspicion_breakdown"
    /\ illicit_wallets = {"B", "Z"}
    /\ out_edges(graph, "A") = <<>>
    /\ ReportedDistance = 2

\* C4: every component of the breakdown is within its documented bounds and
\* total_suspicion_score is min(sum of the five component scores, 1.0).
C4_BreakdownWithinBounds ==
    (last.op = "calculate_suspicion_breakdown") =>
        LET c == last.out.value.components
        IN /\ 0 <= c.fan_out_score.score /\ c.fan_out_score.score <= 350
           /\ 0 <= c.fan_in_score.score /\ c.fan_in_score.score <= 280
           /\ 0 <= c.temporal_burst_score.score /\ c.temporal_burst_score.score <= 170
           /\ 0 <= c.path_similarity_score.score /\ c.path_similarity_score.score <= 100
           /\ 0 <= c.illicit_proximity_score.score
           /\ c.illicit_proximity_score.score <= 500
           /\ last.out.value.total_suspicion_score =
                  Min(c.fan_out_score.score + c.fan_in_score.score
                      + c.temporal_burst_score.score + c.path_similarity_score.score
                      + c.illicit_proximity_score.score, 1000)

\* The components of an illicit hub add up to more than 1.0.
C4_Witness ==
    /\ last.op = "calculate_suspicion_breakdown"
    /\ LET c == last.out.value.components
       IN c.fan_out_score.score + c.fan_in_score.score + c.temporal_burst_score.score
          + c.path_similarity_score.score + c.illicit_proximity_score.score > 1000
    /\ last.out.value.total_suspicion_score = 1000

\* The latest call was a classification that returned; its wallet's detector
\* results, and the ranking of those above 0.3.
Classified == last.op = "classify_laundering_pattern" /\ last.out.status = "returned"
Detected == DetectorResults(graph, illicit_wallets, last.args[1])
Qualifying == {i \in 1..Len(Detected) : Detected[i].confidence > 300}
\* The first of the highest-confidence detectors among `among`.
Highest(among) ==
    CHOOSE i \in among :
        \A j \in among : \/ Detected[j].confidence < Detected[i].confidence
                         \/ Detected[j].confidence = Detected[i].confidence /\ i <= j
Top == Highest(Qualifying)
Second == Highest(Qualifying \ {Top})
MixedCondition ==
    Cardinality(Qualifying) >= 2 /\ Detected[Second].confidence > 500

\* C7: when at least two detectors have confidence > 0.3 and the second-highest
\* is > 0.5, the result is MIXED_STRATEGY with confidence
\* min(top1 + 0.3 * top2, 1.0), subtype the two types joined (top first),
\* evidence the top's followed by the second's, and component_patterns the two
\* detector results.
C7_MixedStrategy ==
    (Classified /\ MixedCondition) =>
        /\ last.out.value.type = "MIXED_STRATEGY"
        /\ last.out.value.confidence =
               Min(Detected[Top].confidence + (3 * Detected[Second].confidence) \div 10, 1000)
        /\ last.out.value.subtype = <<Detected[Top].type, Detected[Second].type>>
        /\ last.out.value.evidence = Detected[Top].evidence \o Detected[Second].evidence
        /\ last.out.value.component_patterns = <<Detected[Top], Detected[Second]>>

\* A fan-out at 0.5 and a cycle at 0.7 were merged into 0.7 + 0.15.
C7_Witness ==
    /\ Classified
    /\ MixedCondition
    /\ last.out.value.type = "MIXED_STRATEGY"
    /\ last.out.value.confidence < 1000
    /\ Detected[Top].type # Detected[Second].type

\* C8: the result is NORMAL_ACTIVITY, confidence 0, no evidence, exactly when
\* no detector has confidence > 0.3; when some detector qualifies and the
\* mixed-strategy condition does not hold, it is the highest-confidence
\* detector's result unchanged.
C8_NormalOrTopUnchanged ==
    Classified =>
        /\ (last.out.value.type = "NORMAL_ACTIVITY") <=> (Qualifying = {})
        /\ (Qualifying = {}) =>
               (last.out.value.confidence = 0 /\ last.out.value.evidence = <<>>)
        /\ (Qualifying # {} /\ ~MixedCondition) => last.out.value = Detected[Top]

\* Two detectors qualify, the second not above 0.5: the top one is returned.
C8_Witness ==
    /\ Classified
    /\ Cardinality(Qualifying) >= 2
    /\ ~MixedCondition
    /\ last.out.value = Detected[Top]

\* The latest call was detect_fan_out_fan_in on a wallet with an inbound edge
\* from an illicit wallet and out-degree >= 5.
OutDegree(wallet) == Cardinality({i \in 1..Len(graph.edges) : graph.edges[i].src = wallet})
ShortcutApplies ==
    /\ last.op = "detect_fan_out_fan_in"
    /\ \E i \in 1..Len(graph.edges) :
           graph.edges[i].dst = last.args[1] /\ graph.edges[i].src \in illicit_wallets
    /\ OutDegree(last.args[1]) >= 5
IsDirect(r) == r.pattern_type = "direct_smurfing_from_illicit"

\* C9: such a call returns a direct_smurfing_from_illicit record whose
\* destinations are all of the wallet's successors and whose score is 0.95
\* when the out-degree is > 10 and 0.9 otherwise.
C9_DirectSmurfingRecord ==
    ShortcutApplies =>
        \E k \in 1..Len(last.out.value) :
            LET r == last.out.value[k]
            IN /\ IsDirect(r)
               /\ r.destinations = successors(graph, last.args[1])
               /\ r.suspicion_score = IF OutDegree(last.args[1]) > 10 THEN 950 ELSE 900

\* One illicit inbound edge and 12 destinations give 0.95.
C9_Witness ==
    /\ ShortcutApplies
    /\ Len(in_edges(graph, last.args[1])) = 1
    /\ OutDegree(last.args[1]) = 12
    /\ \E k \in 1..Len(last.out.value) :
           IsDirect(last.out.value[k]) /\ last.out.value[k].suspicion_score = 950

\* C10 as claimed: when the shortcut applies the multi-hop search is bypassed
\* and the list is exactly the one direct_smurfing_from_illicit record.
C10_ShortcutBypassesSearch ==
    ShortcutApplies => (Len(last.out.value) = 1 /\ IsDirect(last.out.value[1]))

\* C10 as amended: when the shortcut applies the list holds exactly one
\* direct_smurfing_from_illicit record, and its other records are the
\* multi_hop_smurfing records, in the same order, that the same call returns
\* when no wallet is marked illicit.
C10_ShortcutAddsToSearch ==
    ShortcutApplies =>
        /\ Cardinality({k \in 1..Len(last.out.value) : IsDirect(last.out.value[k])}) = 1
        /\ \A k \in 1..Len(last.out.value) :
               ~IsDirect(last.out.value[k])
                   => last.out.value[k].pattern_type = "multi_hop_smurfing"
        /\ SelectSeq(last.out.value, LAMBDA r : ~IsDirect(r))
               = detect_fan_out_fan_in(graph, {}, last.args[1], last.args[2], last.args[3])

\* The shortcut applied and the list also holds multi-hop records.
C10_Witness ==
    /\ ShortcutApplies
    /\ Len(last.out.value) > 1
    /\ \E k \in 1..Len(last.out.value) :
           last.out.value[k].pattern_type = "multi_hop_smurfing"

\* C11: marking adds to the illicit set and never removes an address marked
\* earlier: after mark_illicit_wallets(S1) then mark_illicit_wallets(S2) the set
\* holds every address of S1 and of S2.
C11_MarkingAccumulates ==
    [][(last'.op = "mark_illicit_wallets")
           => (illicit_wallets \subseteq illicit_wallets'
               /\ last'.illicit_wallet_list \subseteq illicit_wallets')]_vars

(***************************************************************************)
(* Properties of the peeling search                                        *)
(***************************************************************************)
\* Of the consecutive pairs of amounts, those whose second amount is more
\* than 5% below the first.
DecreasingPairs(amounts) ==
    {i \in 2..Len(amounts) : 100 * amounts[i] < 95 * amounts[i - 1]}
\* At least 70% of the consecutive pairs decrease by more than 5%.
MostPairsDecrease(amounts) ==
    10 * Cardinality(DecreasingPairs(amounts)) >= 7 * (Len(amounts) - 1)

\* The graph is one linear chain that starts at the wallet.
IsLinearChainFrom(g, wallet) ==
    /\ Len(g.edges) >= 1
    /\ Len(g.nodes) = Len(g.edges) + 1
    /\ g.nodes[1] = wallet
    /\ \A i \in 1..Len(g.edges) :
           g.edges[i].src = g.nodes[i] /\ g.edges[i].dst = g.nodes[i + 1]

PeelingSearched == last.op = "detect_peeling_chain" /\ last.out.status = "returned"

\* C12: on a linear chain of at least min_hops wallets in which every hop's
\* amount is more than 5% below the previous hop's, detect_peeling_chain from
\* the first wallet reports at least one chain, and every reported chain has
\* at least 70% of its consecutive amount pairs decreasing.
C12_DecreasingChainReported ==
    (/\ PeelingSearched
     /\ IsLinearChainFrom(graph, last.args[1])
     /\ Len(graph.nodes) >= last.args[2]
     /\ Cardinality(DecreasingPairs(TotalAmounts(graph.edges))) = Len(graph.edges) - 1)
        => /\ Len(last.out.value) >= 1
           /\ \A k \in 1..Len(last.out.value) :
                  MostPairsDecrease(last.out.value[k].amounts)

\* C13: an amount sequence qualifies as a peeling pattern exactly when at
\* least 70% of its consecutive amount pairs decrease by more than 5%.
C13_PeelingIffMostPairsDecrease ==
    (last.op = "_is_peeling_pattern")
        => (last.out.value <=> MostPairsDecrease(last.args[1]))

\* The simple paths of the graph that start with `path`.
RECURSIVE SimplePathsFrom(_, _)
SimplePathsFrom(g, path) ==
    {path} \cup UNION {SimplePathsFrom(g, Append(path, e.dst)) :
                          e \in {x \in Range(g.edges) :
                                    x.src = path[Len(path)] /\ x.dst \notin Range(path)}}

PathAmounts(g, path) ==
    [i \in 1..(Len(path) - 1) |-> EdgeData(g, path[i], path[i + 1]).total_amount]

\* C14: visited wallets are tracked per path: every simple path from the
\* wallet that has at least min_hops wallets and whose amounts qualify as
\* peeling is reported, also when it passes through a wallet that an earlier
\* path already reached.
C14_EveryQualifyingPathReported ==
    PeelingSearched =>
        \A path \in SimplePathsFrom(graph, <<last.args[1]>>) :
            (Len(path) >= last.args[2] /\ is_peeling_pattern(PathAmounts(graph, path)))
                => \E k \in 1..Len(last.out.value) : last.out.value[k].chain = path

(***************************************************************************)
(* Properties of the multi-hop search and of the confidences               *)
(***************************************************************************)
FanSearched == last.op = "detect_fan_out_fan_in"

\* The paths that the multi-hop search of the latest call enumerates.
ExploredPaths ==
    SumSeq([i \in 1..Len(graph.nodes) |->
               IF graph.nodes[i] = last.args[1] \/ ~has_node(graph, last.args[1]) THEN 0
               ELSE Len(all_simple_paths(graph, last.args[1], graph.nodes[i],
                                         last.args[2]))])

\* C15: the path enumeration is bounded by an explicit explored-path ceiling
\* besides max_depth, and a call that exceeds the ceiling ends with its result
\* marked truncated instead of an ordinary list (stated for a ceiling of
\* ExploredPathCeiling paths).
ExploredPathCeiling == 10
C15_CeilingTruncates ==
    (FanSearched /\ ExploredPaths > ExploredPathCeiling)
        => last.out.status = "truncated"

IsMultiHop(r) == r.pattern_type = "multi_hop_smurfing"

\* C16: every multi_hop_smurfing record has a simple path that starts at the
\* wallet, follows edges, has at most max_depth edges and at least
\* min_intermediaries distinct intermediate wallets, and a score > 0.5; the
\* whole list is in non-increasing order of suspicion_score.
C16_MultiHopRecordsAreBounded ==
    FanSearched =>
        /\ \A k \in 1..Len(last.out.value) :
               LET r == last.out.value[k]
               IN IsMultiHop(r) =>
                      /\ Cardinality(Range(r.path)) = Len(r.path)
                      /\ r.path[1] = last.args[1]
                      /\ \A i \in 1..(Len(r.path) - 1) :
                             has_edge(graph, r.path[i], r.path[i + 1])
                      /\ Len(r.path) - 1 <= last.args[2]
                      /\ Cardinality(Range(r.path) \ {r.path[1], r.path[Len(r.path)]})
                             >= last.args[3]
                      /\ r.suspicion_score > 500
        /\ \A k \in 1..(Len(last.out.value) - 1) :
               last.out.value[k].suspicion_score >= last.out.value[k + 1].suspicion_score

\* With no wallet marked illicit the search found a path through three
\* intermediaries.
C16_Witness ==
    /\ FanSearched
    /\ illicit_wallets = {}
    /\ \E k \in 1..Len(last.out.value) :
           IsMultiHop(last.out.value[k]) /\ Len(last.out.value[k].path) = 5

\* C17: for a wallet that is a node, each of the four detectors returns a
\* confidence in [0, 1], and so does classify_laundering_pattern.
C17_ConfidencesInUnitInterval ==
    Classified =>
        /\ \A i \in 1..Len(Detected) :
               0 <= Detected[i].confidence /\ Detected[i].confidence <= 1000
        /\ 0 <= last.out.value.confidence /\ last.out.value.confidence <= 1000

\* A mixed strategy whose two confidences would add up to more than 1.0.
C17_Witness ==
    /\ Classified
    /\ MixedCondition
    /\ Detected[Top].confidence + (3 * Detected[Second].confidence) \div 10 > 1000
    /\ last.out.value.confidence = 1000

(***************************************************************************)
(* Properties of the scores                                                *)
(***************************************************************************)
\* The least number of edges between the wallet and an illicit wallet, in
\* either direction: 0 for an illicit wallet, -1 when there is no path.
NearestIllicit(g, illicit, wallet) ==
    LET ks == {k \in 1..Len(g.nodes) : IllicitWithin(g, illicit, wallet, k)}
    IN IF wallet \in illicit THEN 0
       ELSE IF ks = {} THEN -1
       ELSE CHOOSE k \in ks : \A j \in ks : k <= j

\* The wallet has an inbound edge from an illicit wallet; the amount that
\* came in over such edges.
HasIllicitInbound(g, illicit, wallet) ==
    \E i \in 1..Len(g.edges) : g.edges[i].dst = wallet /\ g.edges[i].src \in illicit
AmountFromIllicit(g, illicit, wallet) ==
    SumSeq([i \in 1..Len(g.edges) |->
               IF g.edges[i].dst = wallet /\ g.edges[i].src \in illicit
               THEN g.edges[i].total_amount ELSE 0])

\* C19: illicit_proximity_score is 0.50 at distance 0; at distance 1, 0.35 with
\* an inbound edge from an illicit wallet and more than 100 from illicit
\* sources, 0.25 with such an edge and at most 100, 0.20 when the only direct
\* illicit link is outbound; 0.10 at distance 2; 0.05 at distance 3; 0 at any
\* larger distance or when unreachable, and then distance_to_illicit is -1.
C19_ProximityByDistance ==
    (last.op = "calculate_suspicion_breakdown") =>
        LET wallet == last.args[1]
            d == NearestIllicit(graph, illicit_wallets, wallet)
            inbound == HasIllicitInbound(graph, illicit_wallets, wallet)
            component == last.out.value.components.illicit_proximity_score
        IN /\ component.score =
                  (IF d = 0 THEN 500
                   ELSE IF d = 1 /\ inbound
                             /\ AmountFromIllicit(graph, illicit_wallets, wallet) > 100
                        THEN 350
                   ELSE IF d = 1 /\ inbound THEN 250
                   ELSE IF d = 1 THEN 200
                   ELSE IF d = 2 THEN 100
                   ELSE IF d = 3 THEN 50
                   ELSE 0)
           /\ (d = -1) => (component.distance_to_illicit = -1)

\* The nearest illicit wallet is three hops down the chain.
C19_Witness ==
    /\ last.op = "calculate_suspicion_breakdown"
    /\ last.args[1] = "P1"
    /\ illicit_wallets = {"P4"}
    /\ last.out.value.components.illicit_proximity_score.distance_to_illicit = 3
    /\ last.out.value.components.illicit_proximity_score.score = 50

\* The anomaly heuristic of the scalar score: the capped sum of the
\* inbound-illicit-and-fan-out (0.8) or large-inflow-small-splits (0.6) bonus,
\* the fan-out bonus, the fan-in bonus and the round-trip bonus.
Anomaly(g, illicit, wallet) ==
    LET outs == {i \in 1..Len(g.edges) : g.edges[i].src = wallet}
        ins == {i \in 1..Len(g.edges) : g.edges[i].dst = wallet}
        sent == SumSeq([i \in 1..Len(g.edges) |->
                           IF i \in outs THEN g.edges[i].total_amount ELSE 0])
        received == SumSeq([i \in 1..Len(g.edges) |->
                               IF i \in ins THEN g.edges[i].total_amount ELSE 0])
        splitting ==
            IF ins = {} \/ Cardinality(outs) < 5 THEN 0
            ELSE IF HasIllicitInbound(g, illicit, wallet) THEN 800
            ELSE IF 10 * received > 8 * sent /\ 10 * sent < received * Cardinality(outs)
                 THEN 600 ELSE 0
        fan_out == IF Cardinality(outs) > 10 THEN 300
                   ELSE IF Cardinality(outs) > 5 THEN 150 ELSE 0
        fan_in == IF Cardinality(ins) > 10 THEN 300
                  ELSE IF Cardinality(ins) > 5 THEN 150 ELSE 0
        round_trip == IF \E i \in outs : \E j \in ins : g.edges[j].src = g.edges[i].dst
                      THEN 200 ELSE 0
    IN Min(splitting + fan_out + fan_in + round_trip, 1000)

\* The illicit tier at the distances 0 to 3.
IllicitTier(g, illicit, wallet, d) ==
    IF d = 0 THEN 1000
    ELSE IF d = 1 /\ HasIllicitInbound(g, illicit, wallet)
         THEN IF AmountFromIllicit(g, illicit, wallet) > 100 THEN 900 ELSE 700
    ELSE IF d = 1 THEN 500
    ELSE IF d = 2 THEN 300
    ELSE 150

C20_LargeInflowCase ==
    /\ last.op = "calculate_suspicion_score"
    /\ NearestIllicit(graph, illicit_wallets, last.args[1]) = 0
    /\ Anomaly(graph, illicit_wallets, last.args[1]) \in 600..799
    /\ last.out.value < 100000

\* C18: requests on the shared analyzer are serialised: whenever a request
\* to /crypto/batch-analyze has analysed a wallet, it analysed it against the
\* graph and the illicit set that the request itself had set up.
C18_RequestsSerialised ==
    \A r \in RequestIds :
        requests[r].results # <<>> => requests[r].analysed = requests[r].setup

\* The call `last` ran the detector `op` to the end.
Ran(op) == last.op = op /\ last.out.status = "returned"

InDegree(wallet) == Cardinality({i \in 1..Len(graph.edges) : graph.edges[i].dst = wallet})

\* The totals of the wallet's outgoing edges, as a bag indexed by edge.
OutTotals(wallet) ==
    [i \in {j \in 1..Len(graph.edges) : graph.edges[j].src = wallet}
       |-> graph.edges[i].total_amount]

SumOver(f) == SumSeq([i \in 1..Len(graph.edges) |-> IF i \in DOMAIN f THEN f[i] ELSE 0])

\* More than 70% of the outgoing edge totals lie within 20% of their mean:
\* |t - mean| < 0.2 mean, with mean = sum / n.
MostTotalsNearMean(wallet) ==
    LET totals == OutTotals(wallet)
        n == Cardinality(DOMAIN totals)
        sum == SumOver(totals)
        near == {i \in DOMAIN totals : 5 * Abs(n * totals[i] - sum) < sum}
    IN n > 0 /\ 10 * Cardinality(near) > 7 * n

\* C21: the FanOutFanIn detector's confidence is min(1.0, A + B + C + D) with
\* the fan-out, reaggregation, structuring and illicit-source terms, and its
\* subtype follows the reaggregation case.
C21_FanDetectorFormula ==
    Ran("_detect_fan_out_fan_in_pattern") =>
        LET wallet == last.args[1]
            out == OutDegree(wallet)
            in == InDegree(wallet)
            A == IF out >= 10 THEN 500 ELSE IF out >= 5 THEN 300 ELSE 0
            B == IF in >= 5 /\ out >= 5 THEN 300
                 ELSE IF in >= 3 /\ out >= 5 THEN 200 ELSE 0
            C == IF MostTotalsNearMean(wallet) THEN 200 ELSE 0
            D == IF HasIllicitInbound(graph, illicit_wallets, wallet) THEN 300 ELSE 0
        IN /\ last.out.value.confidence = Min(A + B + C + D, 1000)
           /\ last.out.value.subtype =
                  IF in >= 5 /\ out >= 5 THEN "MULTI_LAYER_REAGGREGATION"
                  ELSE IF in >= 3 /\ out >= 5 THEN "COLLECTION_REDISTRIBUTION"
                  ELSE "SIMPLE_FAN_OUT"

\* A collection point (3 or 4 sources, at least 5 destinations) paying out
\* structured amounts, without an illicit source: 0.3 + 0.2 + 0.2.
C21_Witness ==
    /\ Ran("_detect_fan_out_fan_in_pattern")
    /\ last.out.value.subtype = "COLLECTION_REDISTRIBUTION"
    /\ MostTotalsNearMean(last.args[1])
    /\ ~HasIllicitInbound(graph, illicit_wallets, last.args[1])
    /\ last.out.value.confidence = 700

\* A wide fan-out whose totals are not structured.
C21_UnstructuredCase ==
    /\ Ran("_detect_fan_out_fan_in_pattern")
    /\ OutDegree(last.args[1]) >= 10
    /\ ~MostTotalsNearMean(last.args[1])

\* The outgoing totals, sorted descending, each exceed the next by more than
\* 10%: any two of them differ by more than 10% of the smaller.
TotalsPeelOff(wallet) ==
    LET totals == OutTotals(wallet)
    IN \A i, j \in DOMAIN totals :
           i # j => \/ 10 * totals[i] > 11 * totals[j]
                    \/ 10 * totals[j] > 11 * totals[i]

\* C22: in the PeelingChain detector a wallet with 2 or 3 outgoing edges whose
\* sorted totals decrease by more than 10% at each step gets the +0.3
\* decreasing-amounts bonus, whatever chains lie behind its destinations.
C22_DecreasingBonusAlways ==
    (Ran("_detect_peeling_pattern")
         /\ OutDegree(last.args[1]) \in {2, 3} /\ TotalsPeelOff(last.args[1])) =>
        /\ <<"Sequential peeling">> \in Range(last.out.value.evidence)
        /\ last.out.value.confidence >= 300

Pays(u, v) == \E i \in 1..Len(graph.edges) :
                  graph.edges[i].src = u /\ graph.edges[i].dst = v

\* wallet -> A -> B -> wallet with A and B distinct and different from wallet.
OnTwoHopCycle(wallet) ==
    \E A, B \in NodeSet(graph) \ {wallet} :
        A # B /\ Pays(wallet, A) /\ Pays(A, B) /\ Pays(B, wallet)

\* wallet -> A -> wallet
HasRoundTrip(wallet) ==
    \E A \in NodeSet(graph) \ {wallet} : Pays(wallet, A) /\ Pays(A, wallet)

HasEvidence(kind) ==
    \E i \in 1..Len(last.out.value.evidence) : last.out.value.evidence[i][1] = kind

\* C23: in the CyclicWash detector a wallet on a cycle wallet -> A -> B ->
\* wallet gets the +0.3 cycle bonus and subtype CIRCULAR_WASH, also without a
\* direct round trip; a wallet with only a direct round trip gets +0.4 and
\* not the cycle bonus on top.
C23_TwoHopCycleBonus ==
    Ran("_detect_cyclic_pattern") =>
        LET wallet == last.args[1]
        IN /\ OnTwoHopCycle(wallet) =>
                  /\ HasEvidence("2-hop cycle")
                  /\ last.out.value.subtype = "CIRCULAR_WASH"
                  /\ last.out.value.confidence >= 300
           /\ (HasRoundTrip(wallet) /\ ~OnTwoHopCycle(wallet)) =>
                  /\ ~HasEvidence("2-hop cycle")
                  /\ last.out.value.confidence \in {400, 700}
                  /\ last.out.value.confidence = 700 => HasEvidence("Repetitive transactions")

\* The transfers loaded so far that leave the wallet, and their destinations.
TransfersOut(wallet) ==
    SumSeq([i \in 1..Len(graph.edges) |->
               IF graph.edges[i].src = wallet
               THEN Len(LoadedFor(loaded, <<wallet, graph.edges[i].dst>>)) ELSE 0])

DestinationsOut(wallet) == {p[2] : p \in {q \in DOMAIN loaded : q[1] = wallet}}

\* C24: in the CyclicWash detector a wallet whose outgoing transfers go to
\* repeated destinations in more than 50% of cases gets the +0.3
\* destination-repeat bonus.
C24_RepeatBonusAwarded ==
    (Ran("_detect_cyclic_pattern")
         /\ 2 * (TransfersOut(last.args[1]) - Cardinality(DestinationsOut(last.args[1])))
              > TransfersOut(last.args[1])) =>
        /\ HasEvidence("Repetitive transactions")
        /\ last.out.value.confidence >= 300

\* The edges that touch the wallet and the hours of their transactions.
Incident(wallet) ==
    {i \in 1..Len(graph.edges) :
         graph.edges[i].src = wallet \/ graph.edges[i].dst = wallet}

Hours(wallet) ==
    UNION {{graph.edges[i].transactions[k].timestamp :
                k \in 1..Len(graph.edges[i].transactions)} : i \in Incident(wallet)}

\* How many incident transactions happened no later than hour t.
CountAtMost(wallet, t) ==
    SumSeq([i \in 1..Len(graph.edges) |->
               IF i \in Incident(wallet)
               THEN Cardinality({k \in 1..Len(graph.edges[i].transactions) :
                                     graph.edges[i].transactions[k].timestamp <= t})
               ELSE 0])

\* The hour of the k-th incident transaction in time order.
HourOf(wallet, k) ==
    CHOOSE t \in Hours(wallet) :
        /\ CountAtMost(wallet, t) >= k
        /\ \A u \in Hours(wallet) : u < t => CountAtMost(wallet, u) < k

\* The standard deviation of the inter-arrival deltas is below 20% of their
\* mean: for m deltas d, m * sum(d^2) - sum(d)^2 < 0.04 * sum(d)^2.
EvenlySpaced(wallet, n) ==
    LET delta == [k \in 1..(n - 1) |-> HourOf(wallet, k + 1) - HourOf(wallet, k)]
        total == SumSeq(delta)
        squares == SumSeq([k \in 1..(n - 1) |-> delta[k] * delta[k]])
    IN 25 * ((n - 1) * squares - total * total) < total * total

\* C25: the TemporalLayering detector never fails; with fewer than 5 incident
\* transactions it returns confidence 0 and INSUFFICIENT_DATA; otherwise the
\* subtype is RAPID_BURST for a span under 6 hours, else AUTOMATED_TIMING for
\* evenly spaced transactions, else DISTRIBUTED_LAYERING.
C25_TemporalSubtypes ==
    (last.op = "_detect_temporal_layering") =>
        LET wallet == last.args[1]
            n == CountAtMost(wallet, 1000000)
            result == last.out.value
        IN /\ last.out.status = "returned"
           /\ IF n < 5
              THEN result.confidence = 0 /\ result.subtype = "INSUFFICIENT_DATA"
              ELSE result.subtype =
                       IF HourOf(wallet, n) - HourOf(wallet, 1) < 6 THEN "RAPID_BURST"
                       ELSE IF EvenlySpaced(wallet, n) THEN "AUTOMATED_TIMING"
                       ELSE "DISTRIBUTED_LAYERING"

\* Five transactions six hours apart: evenly spaced over a day.
C25_Witness ==
    /\ Ran("_detect_temporal_layering")
    /\ CountAtMost(last.args[1], 1000000) = 5
    /\ last.out.value.subtype = "AUTOMATED_TIMING"

\* Five transactions in the same hour.
C25_IdenticalTimestampsCase ==
    /\ Ran("_detect_temporal_layering")
    /\ CountAtMost(last.args[1], 1000000) >= 5
    /\ Cardinality(Hours(last.args[1])) = 1

\* An irregular history of five or more transactions.
C25_DistributedCase ==
    /\ Ran("_detect_temporal_layering")
    /\ last.out.value.subtype = "DISTRIBUTED_LAYERING"

\* Fewer than five transactions.
C25_InsufficientCase ==
    /\ Ran("_detect_temporal_layering")
    /\ CountAtMost(last.args[1], 1000000) \in 1..4

\* C29: a wallet with fewer than 5 outgoing edges is never classified
\* FAN_OUT_FAN_IN and never contributes FAN_OUT_FAN_IN to a MIXED_STRATEGY
\* verdict.
C29_FanVerdictNeedsFanOut ==
    (Classified /\ OutDegree(last.args[1]) < 5) =>
        /\ last.out.value.type # "FAN_OUT_FAN_IN"
        /\ last.out.value.type = "MIXED_STRATEGY" =>
               \A i \in 1..Len(last.out.value.component_patterns) :
                   last.out.value.component_patterns[i].type # "FAN_OUT_FAN_IN"

\* C27: in calculate_suspicion_score the illicit-connection tier is non-zero
\* only at the distances 0, 1, 2 and 3: for a wallet without a path to or from
\* an illicit wallet the score is the centrality and anomaly part alone.
C27_NoTierWhenUnreachable ==
    (last.op = "calculate_suspicion_score"
         /\ NearestIllicit(graph, illicit_wallets, last.args[1]) \notin 0..3) =>
        LET wallet == last.args[1]
            centrality == calculate_wallet_centrality(graph, nx_oracle, wallet)
        IN last.out.value =
               Min(2 * (3 * centrality.degree + 4 * centrality.betweenness
                        + 3 * centrality.pagerank)
                   + 30 * Anomaly(graph, illicit_wallets, wallet),
                   100000)

\* C26: load_transactions leaves the illicit set unchanged,
\* mark_illicit_wallets leaves the graph unchanged, and every analysis
\* operation leaves both unchanged.
C26_FrameEffects ==
    [][/\ last'.op = "load_transactions" => illicit_wallets' = illicit_wallets
       /\ last'.op = "mark_illicit_wallets" => graph' = graph
       /\ last'.op \in ReadOnlyOps =>
              graph' = graph /\ illicit_wallets' = illicit_wallets]_vars

\* An exploratory search has run on a wallet that is no node of a non-empty
\* graph, with wallets marked.
C26_Witness ==
    /\ last.op = "detect_peeling_chain"
    /\ ~has_node(graph, last.args[1])
    /\ graph.edges # <<>>
    /\ illicit_wallets # {}

\* C28: on a wallet that is a node detect_peeling_chain terminates (its loop
\* pops at most once per edge, plus once for the start), and every chain it
\* reports is a simple path from the wallet along existing edges that carries
\* one amount per hop, the edge's total_amount.
C28_PeelingSearchIsFinite ==
    (last.op = "detect_peeling_chain" /\ has_node(graph, last.args[1])) =>
        /\ last.out.status = "returned"
        /\ peeling_iterations(graph, last.args[1]) <= 1 + Len(graph.edges)
        /\ \A i \in 1..Len(last.out.value) :
               LET chain == last.out.value[i].chain
                   amounts == last.out.value[i].amounts
               IN /\ chain[1] = last.args[1]
                  /\ \A j, k \in 1..Len(chain) : j # k => chain[j] # chain[k]
                  /\ Len(amounts) = Len(chain) - 1
                  /\ \A k \in 1..Len(amounts) :
                         \E e \in 1..Len(graph.edges) :
                             /\ graph.edges[e].src = chain[k]
                             /\ graph.edges[e].dst = chain[k + 1]
                             /\ graph.edges[e].total_amount = amounts[k]

\* A chain is reported from a wallet that lies on a cycle, in a graph with a
\* self-transfer.
C28_Witness ==
    /\ PeelingSearched
    /\ last.out.value # <<>>
    /\ \E e \in 1..Len(graph.edges) : graph.edges[e].dst = last.args[1]
    /\ \E e \in 1..Len(graph.edges) : graph.edges[e].src = graph.edges[e].dst

\* Some edge of a reported chain aggregates more than one transfer.
C28_AggregatedCase ==
    /\ PeelingSearched
    /\ last.out.value # <<>>
    /\ \E e \in 1..Len(graph.edges) :
           graph.edges[e].src = "P1" /\ graph.edges[e].transaction_count > 1

\* C30: after any sequence of case operations the dashboard counter
\* open_cases equals the number of cases in cases_db whose status is not
\* Closed, and it is never negative.
C30_OpenCasesCounted ==
    /\ open_cases = Cardinality({c \in DOMAIN cases_db : cases_db[c].status # "Closed"})
    /\ open_cases >= 0

=============================================================================
